---- MODULE Spec2Model ----
(***************************************************************************)
(* Ledger / replay / timeline-validation core of the investment portfolio  *)
(* backend (backend/portfolio_service.py and the request handlers of       *)
(* backend/main.py).                                                       *)
(*                                                                         *)
(* Units.  Every amount of money (TRY or USD) and every asset quantity is  *)
(* an integer number of 1e-4 units: 1 USD = 10000, 0.01 = 100, and the     *)
(* dust threshold 0.0001 = 1.  Cost bases and average costs are exact      *)
(* rationals <<numerator, denominator>>.  Points in time (effective dates  *)
(* and insertion timestamps) are integers on one time line.                *)
(***************************************************************************)
EXTENDS Integers, Sequences, FiniteSets, TLC

VARIABLES
    log,        \* the Transaction rows of the portfolio (a set of records)
    cash_usd,   \* Portfolio.cash_usd
    cash_try,   \* Portfolio.cash_try
    interest_balance_usd,  \* Portfolio.interest_balance_usd
    interest_balance_try,  \* Portfolio.interest_balance_try
    total_deposited_usd,   \* Portfolio.total_deposited_usd
    total_deposited_try,   \* Portfolio.total_deposited_try
    holdings,   \* the Holding rows: symbol -> [quantity, avg_cost_usd]
    now,        \* the clock: datetime.utcnow() of the next request
    last,       \* the last request and its response
    sessions,   \* per server process: the request in flight and what its
                \* database session has read
    fx_cache,   \* market_data._fx_cache["USDTRY"]: NoRate or <<rate, timestamp>>
    clock,      \* datetime.now().timestamp(), in seconds
    portfolios  \* the Portfolio rows of all users: [id, username, name, txs],
                \* txs the ids of the Transaction rows of the portfolio

vars == <<log, cash_usd, cash_try, interest_balance_usd, interest_balance_try,
          total_deposited_usd, total_deposited_try, holdings, now, last,
          sessions, fx_cache, clock, portfolios>>

(***************************************************************************)
(* Bounds of the model.                                                    *)
(***************************************************************************)
MaxTx == 3          \* at most this many rows in the log at once
MaxInserts == 3     \* at most this many inserts in one behaviour

(***************************************************************************)
(* Program constants.                                                      *)
(***************************************************************************)
TOLERANCE == -100        \* TOLERANCE = -0.01 in pre_validate_new_transaction
DustQty == 1             \* 0.0001, the "effectively zero" holding quantity
Scale == 10000           \* round(x, 4): amounts are kept to 1e-4
TryGrid == 100           \* round(x, 2): TRY amounts are rounded to 0.01

None == 0                \* transaction_date IS NULL
StartTime == 10          \* the time of the first request

(***************************************************************************)
(* Inputs.                                                                 *)
(***************************************************************************)
Symbols == {"AAPL", "THYAO.IS"}
Dates == {5, 12}                 \* user-supplied effective dates
DateInputs == {None} \cup Dates
UsdTryRates == {40}              \* get_usd_try_rate(), TRY per USD

\* symbol.endswith('.IS')
IsBist(symbol) == symbol = "THYAO.IS"

(***************************************************************************)
(* Arithmetic helpers.                                                     *)
(***************************************************************************)
Abs(x) == IF x < 0 THEN -x ELSE x

RECURSIVE Gcd(_, _)
Gcd(a, b) == IF b = 0 THEN a ELSE Gcd(b, a % b)

\* a normalised rational n/d with d > 0
Rat(n, d) ==
    LET s == IF d < 0 THEN -1 ELSE 1
        g == Gcd(Abs(n), Abs(d))
    IN  IF n = 0 THEN <<0, 1>> ELSE <<(s * n) \div g, (s * d) \div g>>

\* sums over the least common denominator, products after cancelling, so
\* that intermediate values stay small
RatAdd(r, q) ==
    LET g == Gcd(r[2], q[2])
    IN  Rat(r[1] * (q[2] \div g) + q[1] * (r[2] \div g), (r[2] \div g) * q[2])
RatSub(r, q) == RatAdd(r, <<0 - q[1], q[2]>>)
RatMul(r, q) ==
    LET g == Gcd(Abs(r[1]), q[2])
        h == Gcd(Abs(q[1]), r[2])
    IN  IF r[1] = 0 \/ q[1] = 0 THEN <<0, 1>>
        ELSE Rat((r[1] \div g) * (q[1] \div h), (r[2] \div h) * (q[2] \div g))
RatDiv(r, q) ==
    IF q[1] < 0 THEN RatMul(r, <<0 - q[2], 0 - q[1]>>)
    ELSE RatMul(r, <<q[2], q[1]>>)
RatInt(n) == <<n, 1>>

\* round(n / d) to the nearest integer, ties to even (Python's round), d > 0
RoundDiv(n, d) ==
    LET f == n \div d
        r == n % d
    IN  IF 2 * r < d THEN f
        ELSE IF 2 * r > d THEN f + 1
        ELSE IF f % 2 = 0 THEN f ELSE f + 1

\* round(x, 4) of the rational x (in 1e-4 units this is the nearest integer)
Round4(r) == RoundDiv(r[1], r[2])
\* round(x, 2) of the rational x: the nearest multiple of 0.01
Round2(r) == TryGrid * RoundDiv(r[1], r[2] * TryGrid)

(***************************************************************************)
(* Transactions.  A row of the transactions table is a record              *)
(*   [id, tx_type, symbol, quantity, amount_usd, amount_try, note,         *)
(*    trade_currency, transaction_date, created_at,                        *)
(*    interest_earned_usd, interest_earned_try].                           *)
(* The note is free text that the code only ever searches for a few        *)
(* substrings; it is modelled as the set of those substrings it contains:  *)
(*   "$", "TL" (the lira sign), "TRY", "Bought", "buy" (in note.lower()).  *)
(***************************************************************************)
NoSymbol == ""

MkTx(id, tx_type, symbol, quantity, amount_usd, amount_try, note, tc, date, earned_usd, earned_try) ==
    [id |-> id, tx_type |-> tx_type, symbol |-> symbol, quantity |-> quantity,
     amount_usd |-> amount_usd, amount_try |-> amount_try, note |-> note,
     trade_currency |-> tc, transaction_date |-> date, created_at |-> id,
     interest_earned_usd |-> earned_usd, interest_earned_try |-> earned_try]

\* tx.transaction_date or tx.created_at
EffectiveDate(tx) ==
    IF tx.transaction_date # None THEN tx.transaction_date ELSE tx.created_at

\* tc == 'TRY' or (not tc and symbol and symbol.endswith('.IS') and 'TL' in note)
PaysInTry(tc, symbol, note) ==
    \/ tc = "TRY"
    \/ (tc = "" /\ symbol # NoSymbol /\ IsBist(symbol) /\ "TL" \in note)

\* "Bought" in note or "buy" in note.lower()
IsBuyUsd(note) == "Bought" \in note \/ "buy" \in note

(***************************************************************************)
(* 4.1 Ordering.  The ORDER BY of every query on the transactions table:   *)
(*   case((transaction_date IS NULL, 1), else_=0), transaction_date ASC,   *)
(*   created_at ASC.                                                       *)
(***************************************************************************)
CanonicalBefore(a, b) ==
    LET na == IF a.transaction_date = None THEN 1 ELSE 0
        nb == IF b.transaction_date = None THEN 1 ELSE 0
    IN  \/ na < nb
        \/ na = nb /\ a.transaction_date < b.transaction_date
        \/ na = nb /\ a.transaction_date = b.transaction_date
                   /\ a.created_at < b.created_at

RECURSIVE CanonicalOrder(_)
CanonicalOrder(txs) ==
    IF txs = {} THEN <<>>
    ELSE LET first == CHOOSE t \in txs :
                          \A u \in txs \ {t} : CanonicalBefore(t, u)
         IN  <<first>> \o CanonicalOrder(txs \ {first})

\* list.sort(key=...) is stable: x goes after every element whose key is <= its own
RECURSIVE StableInsert(_, _)
StableInsert(sorted, x) ==
    IF sorted = <<>> THEN <<x>>
    ELSE IF x.date < Head(sorted).date THEN <<x>> \o sorted
    ELSE <<Head(sorted)>> \o StableInsert(Tail(sorted), x)

RECURSIVE StableSortByDate(_)
StableSortByDate(entries) ==
    IF entries = <<>> THEN <<>>
    ELSE StableInsert(StableSortByDate(SubSeq(entries, 1, Len(entries) - 1)),
                      entries[Len(entries)])

(***************************************************************************)
(* 4.3 Timeline validator for inserts: pre_validate_new_transaction.       *)
(* The walk state is [cash_usd, cash_try, interest_usd, interest_try,      *)
(* holdings, valid, error, symbol, date]; holdings maps every symbol to    *)
(* its quantity (holdings.get(symbol, 0)).                                 *)
(***************************************************************************)
WalkStart ==
    [cash_usd |-> 0, cash_try |-> 0, interest_usd |-> 0, interest_try |-> 0,
     holdings |-> [s \in Symbols |-> 0],
     valid |-> TRUE, error |-> "", symbol |-> NoSymbol, date |-> None]

\* return {"valid": False, "error": ...}: the kind of balance that is short,
\* the symbol the message names and the date of the violation
WalkFail(st, error, symbol, date) ==
    [st EXCEPT !.valid = FALSE, !.error = error, !.symbol = symbol, !.date = date]

\* the entry built from a stored row
EntryOf(tx) ==
    [tx_type |-> tx.tx_type, symbol |-> tx.symbol, quantity |-> tx.quantity,
     amount_usd |-> tx.amount_usd, amount_try |-> tx.amount_try,
     note |-> tx.note, trade_currency |-> tx.trade_currency,
     date |-> EffectiveDate(tx),
     interest_earned_usd |-> tx.interest_earned_usd,
     interest_earned_try |-> tx.interest_earned_try]

\* the entry built from the candidate: new_tx.get("transaction_date") or utcnow()
NewEntry(new_tx, t) ==
    [tx_type |-> new_tx.tx_type, symbol |-> new_tx.symbol,
     quantity |-> new_tx.quantity,
     amount_usd |-> new_tx.amount_usd, amount_try |-> new_tx.amount_try,
     note |-> new_tx.note, trade_currency |-> new_tx.trade_currency,
     date |-> IF new_tx.transaction_date # None
              THEN new_tx.transaction_date ELSE t,
     interest_earned_usd |-> new_tx.interest_earned_usd,
     interest_earned_try |-> new_tx.interest_earned_try]

\* the candidate dictionaries the handlers build (missing keys default to 0 / "")
Candidate(tx_type, symbol, quantity, amount_usd, amount_try, note, tc, date) ==
    [tx_type |-> tx_type, symbol |-> symbol, quantity |-> quantity,
     amount_usd |-> amount_usd, amount_try |-> amount_try, note |-> note,
     trade_currency |-> tc, transaction_date |-> date,
     interest_earned_usd |-> 0, interest_earned_try |-> 0]

\* entries: the stored rows in the order of the query, the candidate appended,
\* then entries.sort(key=lambda e: (e["date"] is None, e["date"]))
PreValidateEntries(txs, new_tx, t) ==
    LET stored == CanonicalOrder(txs)
        entries == [i \in 1..Len(stored) |-> EntryOf(stored[i])]
    IN  StableSortByDate(Append(entries, NewEntry(new_tx, t)))

\* one iteration of the replay loop of pre_validate_new_transaction
PreValidateStep(st, e) ==
    LET sym == e.symbol IN
    CASE e.tx_type = "deposit" ->
           IF "$" \in e.note
           THEN [st EXCEPT !.cash_usd = @ + e.amount_usd]
           ELSE [st EXCEPT !.cash_try = @ + e.amount_try]
      [] e.tx_type = "withdraw" ->
           IF "TRY" \in e.note
           THEN IF st.cash_try + TOLERANCE < e.amount_try
                THEN WalkFail(st, "TRY", NoSymbol, e.date)
                ELSE [st EXCEPT !.cash_try = @ - e.amount_try]
           ELSE IF st.cash_usd + TOLERANCE < e.amount_usd
                THEN WalkFail(st, "USD", NoSymbol, e.date)
                ELSE [st EXCEPT !.cash_usd = @ - e.amount_usd]
      [] e.tx_type = "buy" ->
           IF PaysInTry(e.trade_currency, sym, e.note)
           THEN IF st.cash_try + TOLERANCE < e.amount_try
                THEN WalkFail(st, "TRY", sym, e.date)
                ELSE [st EXCEPT !.cash_try = @ - e.amount_try,
                                !.holdings[sym] = @ + e.quantity]
           ELSE IF st.cash_usd + TOLERANCE < e.amount_usd
                THEN WalkFail(st, "USD", sym, e.date)
                ELSE [st EXCEPT !.cash_usd = @ - e.amount_usd,
                                !.holdings[sym] = @ + e.quantity]
      [] e.tx_type = "sell" ->
           IF st.holdings[sym] + TOLERANCE < e.quantity
           THEN WalkFail(st, "holding", sym, e.date)
           ELSE IF PaysInTry(e.trade_currency, sym, e.note)
                THEN [st EXCEPT !.holdings[sym] = @ - e.quantity,
                                !.cash_try = @ + e.amount_try]
                ELSE [st EXCEPT !.holdings[sym] = @ - e.quantity,
                                !.cash_usd = @ + e.amount_usd]
      [] e.tx_type = "interest_in" ->
           IF "TRY" \in e.note
           THEN IF st.cash_try + TOLERANCE < e.amount_try
                THEN WalkFail(st, "TRY", NoSymbol, e.date)
                ELSE [st EXCEPT !.cash_try = @ - e.amount_try,
                                !.interest_try = @ + e.amount_try]
           ELSE IF st.cash_usd + TOLERANCE < e.amount_usd
                THEN WalkFail(st, "USD", NoSymbol, e.date)
                ELSE [st EXCEPT !.cash_usd = @ - e.amount_usd,
                                !.interest_usd = @ + e.amount_usd]
      [] e.tx_type = "interest_out" ->
           IF "TRY" \in e.note
           THEN LET principal == e.amount_try - e.interest_earned_try
                IN  IF st.interest_try + TOLERANCE < principal
                    THEN WalkFail(st, "interest_TRY", NoSymbol, e.date)
                    ELSE [st EXCEPT !.interest_try = @ - principal,
                                    !.cash_try = @ + e.amount_try]
           ELSE LET principal == e.amount_usd - e.interest_earned_usd
                IN  IF st.interest_usd + TOLERANCE < principal
                    THEN WalkFail(st, "interest_USD", NoSymbol, e.date)
                    ELSE [st EXCEPT !.interest_usd = @ - principal,
                                    !.cash_usd = @ + e.amount_usd]
      [] e.tx_type = "exchange" ->
           IF IsBuyUsd(e.note)
           THEN IF st.cash_try + TOLERANCE < e.amount_try
                THEN WalkFail(st, "TRY", NoSymbol, e.date)
                ELSE [st EXCEPT !.cash_try = @ - e.amount_try,
                                !.cash_usd = @ + e.amount_usd]
           ELSE IF st.cash_usd + TOLERANCE < e.amount_usd
                THEN WalkFail(st, "USD", NoSymbol, e.date)
                ELSE [st EXCEPT !.cash_usd = @ - e.amount_usd,
                                !.cash_try = @ + e.amount_try]
      [] OTHER -> st

\* the loop: stop at the first failure
RECURSIVE PreValidateWalk(_, _, _)
PreValidateWalk(entries, i, st) ==
    IF i > Len(entries) \/ ~st.valid THEN st
    ELSE PreValidateWalk(entries, i + 1, PreValidateStep(st, entries[i]))

pre_validate_new_transaction(txs, new_tx, t) ==
    PreValidateWalk(PreValidateEntries(txs, new_tx, t), 1, WalkStart)

(***************************************************************************)
(* 4.3 Timeline validator for deletes: validate_transaction_timeline.      *)
(***************************************************************************)
\* one iteration of the loop of validate_transaction_timeline
ValidateTimelineStep(st, tx) ==
    LET sym == tx.symbol
        d == EffectiveDate(tx)
    IN
    CASE tx.tx_type = "deposit" ->
           IF "$" \in tx.note
           THEN [st EXCEPT !.cash_usd = @ + tx.amount_usd]
           ELSE [st EXCEPT !.cash_try = @ + tx.amount_try]
      [] tx.tx_type = "withdraw" ->
           IF "TRY" \in tx.note
           THEN IF tx.amount_try > 0 /\ st.cash_try < tx.amount_try
                THEN WalkFail(st, "TRY", NoSymbol, d)
                ELSE [st EXCEPT !.cash_try = @ - tx.amount_try]
           ELSE IF tx.amount_usd > 0 /\ st.cash_usd < tx.amount_usd
                THEN WalkFail(st, "USD", NoSymbol, d)
                ELSE [st EXCEPT !.cash_usd = @ - tx.amount_usd]
      [] tx.tx_type = "buy" ->
           IF PaysInTry(tx.trade_currency, sym, tx.note)
           THEN IF st.cash_try < tx.amount_try
                THEN WalkFail(st, "TRY", sym, d)
                ELSE [st EXCEPT !.cash_try = @ - tx.amount_try,
                                !.holdings[sym] = @ + tx.quantity]
           ELSE IF st.cash_usd < tx.amount_usd
                THEN WalkFail(st, "USD", sym, d)
                ELSE [st EXCEPT !.cash_usd = @ - tx.amount_usd,
                                !.holdings[sym] = @ + tx.quantity]
      [] tx.tx_type = "sell" ->
           IF st.holdings[sym] < tx.quantity
           THEN WalkFail(st, "holding", sym, d)
           ELSE IF PaysInTry(tx.trade_currency, sym, tx.note)
                THEN [st EXCEPT !.holdings[sym] = @ - tx.quantity,
                                !.cash_try = @ + tx.amount_try]
                ELSE [st EXCEPT !.holdings[sym] = @ - tx.quantity,
                                !.cash_usd = @ + tx.amount_usd]
      [] tx.tx_type = "interest_in" ->
           IF "TRY" \in tx.note
           THEN IF st.cash_try < tx.amount_try
                THEN WalkFail(st, "TRY", NoSymbol, d)
                ELSE [st EXCEPT !.cash_try = @ - tx.amount_try,
                                !.interest_try = @ + tx.amount_try]
           ELSE IF st.cash_usd < tx.amount_usd
                THEN WalkFail(st, "USD", NoSymbol, d)
                ELSE [st EXCEPT !.cash_usd = @ - tx.amount_usd,
                                !.interest_usd = @ + tx.amount_usd]
      [] tx.tx_type = "interest_out" ->
           IF "TRY" \in tx.note
           THEN LET principal == tx.amount_try - tx.interest_earned_try
                IN  IF st.interest_try < principal
                    THEN WalkFail(st, "interest_TRY", NoSymbol, d)
                    ELSE [st EXCEPT !.interest_try = @ - principal,
                                    !.cash_try = @ + tx.amount_try]
           ELSE LET principal == tx.amount_usd - tx.interest_earned_usd
                IN  IF st.interest_usd < principal
                    THEN WalkFail(st, "interest_USD", NoSymbol, d)
                    ELSE [st EXCEPT !.interest_usd = @ - principal,
                                    !.cash_usd = @ + tx.amount_usd]
      [] tx.tx_type = "exchange" ->
           IF IsBuyUsd(tx.note)
           THEN IF st.cash_try < tx.amount_try
                THEN WalkFail(st, "TRY", NoSymbol, d)
                ELSE [st EXCEPT !.cash_try = @ - tx.amount_try,
                                !.cash_usd = @ + tx.amount_usd]
           ELSE IF st.cash_usd < tx.amount_usd
                THEN WalkFail(st, "USD", NoSymbol, d)
                ELSE [st EXCEPT !.cash_usd = @ - tx.amount_usd,
                                !.cash_try = @ + tx.amount_try]
      [] OTHER -> st

RECURSIVE ValidateTimelineWalk(_, _, _)
ValidateTimelineWalk(ordered, i, st) ==
    IF i > Len(ordered) \/ ~st.valid THEN st
    ELSE ValidateTimelineWalk(ordered, i + 1, ValidateTimelineStep(st, ordered[i]))

\* exclude_tx_id filters the query; the rest is walked in the query's order
validate_transaction_timeline(txs, exclude_tx_id) ==
    LET rest == IF exclude_tx_id # 0
                THEN {t \in txs : t.id # exclude_tx_id} ELSE txs
    IN  ValidateTimelineWalk(CanonicalOrder(rest), 1, WalkStart)

(***************************************************************************)
(* Dictionaries keyed by symbol are functions on the set of present keys.  *)
(***************************************************************************)
DictPut(h, k, v) == [x \in (DOMAIN h) \cup {k} |-> IF x = k THEN v ELSE h[x]]
DictDel(h, k) == [x \in (DOMAIN h) \ {k} |-> h[x]]
EmptyDict == [x \in {} |-> 0]

(***************************************************************************)
(* Full recompute after a delete: _recalculate_portfolio_balances.         *)
(* The state is the six Portfolio fields and the local dictionary          *)
(* holdings: symbol -> [quantity, total_cost].                             *)
(***************************************************************************)
ZeroBalances ==
    [cash_usd |-> 0, cash_try |-> 0, interest_usd |-> 0, interest_try |-> 0,
     total_deposited_usd |-> 0, total_deposited_try |-> 0,
     holdings |-> EmptyDict]

\* one iteration of the loop of _recalculate_portfolio_balances
RecalculateStep(st, tx) ==
    LET sym == tx.symbol IN
    CASE tx.tx_type = "deposit" ->
           LET c == IF "$" \in tx.note
                    THEN [st EXCEPT !.cash_usd = @ + tx.amount_usd]
                    ELSE [st EXCEPT !.cash_try = @ + tx.amount_try]
           IN  [c EXCEPT !.total_deposited_usd = @ + tx.amount_usd,
                         !.total_deposited_try = @ + tx.amount_try]
      [] tx.tx_type = "withdraw" ->
           IF "TRY" \in tx.note
           THEN [st EXCEPT !.cash_try = @ - tx.amount_try]
           ELSE [st EXCEPT !.cash_usd = @ - tx.amount_usd]
      [] tx.tx_type = "buy" ->
           LET c == IF PaysInTry(tx.trade_currency, sym, tx.note)
                    THEN [st EXCEPT !.cash_try = @ - tx.amount_try]
                    ELSE [st EXCEPT !.cash_usd = @ - tx.amount_usd]
               old == IF sym \in DOMAIN st.holdings THEN st.holdings[sym]
                      ELSE [quantity |-> 0, total_cost |-> RatInt(0)]
           IN  [c EXCEPT !.holdings = DictPut(st.holdings, sym,
                   [quantity |-> old.quantity + tx.quantity,
                    total_cost |-> RatAdd(old.total_cost, RatInt(tx.amount_usd))])]
      [] tx.tx_type = "sell" ->
           LET c == IF PaysInTry(tx.trade_currency, sym, tx.note)
                    THEN [st EXCEPT !.cash_try = @ + tx.amount_try]
                    ELSE [st EXCEPT !.cash_usd = @ + tx.amount_usd]
           IN  IF sym \in DOMAIN st.holdings
               THEN LET old == st.holdings[sym]
                        left == old.quantity - tx.quantity
                        \* cost_reduction = quantity / (left + quantity) * total_cost
                        cost == IF left > 0
                                THEN RatSub(old.total_cost,
                                       RatMul(Rat(tx.quantity, left + tx.quantity),
                                              old.total_cost))
                                ELSE RatInt(0)
                    IN  [c EXCEPT !.holdings = DictPut(st.holdings, sym,
                            [quantity |-> left, total_cost |-> cost])]
               ELSE c
      [] tx.tx_type = "interest_in" ->
           IF "TRY" \in tx.note
           THEN [st EXCEPT !.cash_try = @ - tx.amount_try,
                           !.interest_try = @ + tx.amount_try]
           ELSE [st EXCEPT !.cash_usd = @ - tx.amount_usd,
                           !.interest_usd = @ + tx.amount_usd]
      [] tx.tx_type = "interest_out" ->
           IF "TRY" \in tx.note
           THEN [st EXCEPT !.interest_try =
                               @ - (tx.amount_try - tx.interest_earned_try),
                           !.cash_try = @ + tx.amount_try]
           ELSE [st EXCEPT !.interest_usd =
                               @ - (tx.amount_usd - tx.interest_earned_usd),
                           !.cash_usd = @ + tx.amount_usd]
      [] tx.tx_type = "exchange" ->
           IF IsBuyUsd(tx.note)
           THEN [st EXCEPT !.cash_try = @ - tx.amount_try,
                           !.cash_usd = @ + tx.amount_usd]
           ELSE [st EXCEPT !.cash_usd = @ - tx.amount_usd,
                           !.cash_try = @ + tx.amount_try]
      [] OTHER -> st

RECURSIVE RecalculateWalk(_, _, _)
RecalculateWalk(ordered, i, st) ==
    IF i > Len(ordered) THEN st
    ELSE RecalculateWalk(ordered, i + 1, RecalculateStep(st, ordered[i]))

\* "Recreate holdings": a Holding row for every symbol with quantity > 0.0001,
\* avg_cost_usd = total_cost / quantity (per whole unit, in 1e-4 USD)
RecreateHoldings(h) ==
    LET keep == {s \in DOMAIN h : h[s].quantity > DustQty}
    IN  [s \in keep |->
            [quantity |-> h[s].quantity,
             avg_cost_usd |-> RatDiv(h[s].total_cost, Rat(h[s].quantity, Scale))]]

\* the Portfolio fields and Holding rows that the recompute leaves
_recalculate_portfolio_balances(txs) ==
    LET st == RecalculateWalk(CanonicalOrder(txs), 1, ZeroBalances)
    IN  [st EXCEPT !.holdings = RecreateHoldings(st.holdings)]

(***************************************************************************)
(* 4.2 Replay engine: _replay_state_at_date(transactions, cutoff).         *)
(* holdings: symbol -> [qty, total_cost_usd].                              *)
(***************************************************************************)
\* one iteration of the loop of _replay_state_at_date (after the cutoff test)
ReplayStep(st, tx) ==
    LET sym == tx.symbol IN
    CASE tx.tx_type = "deposit" ->
           LET c == IF "$" \in tx.note
                    THEN [st EXCEPT !.cash_usd = @ + tx.amount_usd]
                    ELSE [st EXCEPT !.cash_try = @ + tx.amount_try]
           IN  [c EXCEPT !.total_deposited_try = @ + tx.amount_try,
                         !.total_deposited_usd = @ + tx.amount_usd]
      [] tx.tx_type = "withdraw" ->
           IF "TRY" \in tx.note
           THEN [st EXCEPT !.cash_try = @ - tx.amount_try]
           ELSE [st EXCEPT !.cash_usd = @ - tx.amount_usd]
      [] tx.tx_type = "exchange" ->
           IF IsBuyUsd(tx.note)
           THEN [st EXCEPT !.cash_try = @ - tx.amount_try,
                           !.cash_usd = @ + tx.amount_usd]
           ELSE [st EXCEPT !.cash_usd = @ - tx.amount_usd,
                           !.cash_try = @ + tx.amount_try]
      [] tx.tx_type = "buy" ->
           LET c == IF PaysInTry(tx.trade_currency, sym, tx.note)
                    THEN [st EXCEPT !.cash_try = @ - tx.amount_try]
                    ELSE [st EXCEPT !.cash_usd = @ - tx.amount_usd]
               old == IF sym \in DOMAIN st.holdings THEN st.holdings[sym]
                      ELSE [qty |-> 0, total_cost_usd |-> RatInt(0)]
           IN  [c EXCEPT !.holdings = DictPut(st.holdings, sym,
                   [qty |-> old.qty + tx.quantity,
                    total_cost_usd |->
                        RatAdd(old.total_cost_usd, RatInt(tx.amount_usd))])]
      [] tx.tx_type = "sell" ->
           LET c == IF PaysInTry(tx.trade_currency, sym, tx.note)
                    THEN [st EXCEPT !.cash_try = @ + tx.amount_try]
                    ELSE [st EXCEPT !.cash_usd = @ + tx.amount_usd]
           IN  IF sym \in DOMAIN st.holdings
               THEN LET old == st.holdings[sym]
                        \* fraction = min(sell_qty / old_qty, 1.0)
                        fraction == IF tx.quantity >= old.qty THEN RatInt(1)
                                    ELSE Rat(tx.quantity, old.qty)
                        cost == IF old.qty > 0 /\ tx.quantity > 0
                                THEN RatSub(old.total_cost_usd,
                                            RatMul(fraction, old.total_cost_usd))
                                ELSE old.total_cost_usd
                        left == old.qty - tx.quantity
                    IN  [c EXCEPT !.holdings = DictPut(st.holdings, sym,
                            IF left <= DustQty
                            THEN [qty |-> 0, total_cost_usd |-> RatInt(0)]
                            ELSE [qty |-> left, total_cost_usd |-> cost])]
               ELSE c
      [] tx.tx_type = "interest_in" ->
           IF "TRY" \in tx.note
           THEN [st EXCEPT !.cash_try = @ - tx.amount_try,
                           !.interest_try = @ + tx.amount_try]
           ELSE [st EXCEPT !.cash_usd = @ - tx.amount_usd,
                           !.interest_usd = @ + tx.amount_usd]
      [] tx.tx_type = "interest_out" ->
           IF "TRY" \in tx.note
           THEN [st EXCEPT !.interest_try =
                               @ - (tx.amount_try - tx.interest_earned_try),
                           !.cash_try = @ + tx.amount_try]
           ELSE [st EXCEPT !.interest_usd =
                               @ - (tx.amount_usd - tx.interest_earned_usd),
                           !.cash_usd = @ + tx.amount_usd]
      [] OTHER -> st

\* the loop: "if tx_date and tx_date > cutoff: break"
RECURSIVE ReplayWalk(_, _, _, _)
ReplayWalk(transactions, i, cutoff, st) ==
    IF i > Len(transactions) THEN st
    ELSE IF EffectiveDate(transactions[i]) > cutoff THEN st
    ELSE ReplayWalk(transactions, i + 1, cutoff, ReplayStep(st, transactions[i]))

\* "Clean up zero holdings": keep v['qty'] > 0.0001
_replay_state_at_date(transactions, cutoff) ==
    LET st == ReplayWalk(transactions, 1, cutoff, ZeroBalances)
        keep == {s \in DOMAIN st.holdings : st.holdings[s].qty > DustQty}
    IN  [st EXCEPT !.holdings = [s \in keep |-> st.holdings[s]]]

(***************************************************************************)
(* Request inputs (amounts and quantities in 1e-4 units, prices per whole  *)
(* unit of the asset).  Amount-based orders are multiples of the price, so *)
(* that amount / price is exact.                                           *)
(***************************************************************************)
UsdDeposits == {100000}                  \* 10 USD
TryDeposits == {4000000}                 \* 400 TRY
UsdWithdrawals == {50000, 100000}        \* 5 USD, 10 USD
TryWithdrawals == {2000000, 4000000}     \* 200 TRY, 400 TRY
ExchangeTry == {2000000}                 \* 200 TRY
InterestUsd == {50000}                   \* 5 USD
InterestTry == {2000000}                 \* 200 TRY
AnnualRates == {10}                      \* percent
InterestDays == {365}                    \* end_date - start_date
Earned == {0, -200000}                   \* req.earned of an interest withdrawal
\* orders: a quantity, or an amount from which the quantity is derived
Orders ==
    {[quantity |-> 10000, amount |-> 0],     \* 1.0000
     [quantity |-> 10001, amount |-> 0],     \* 1.0001
     [quantity |-> 0, amount |-> 1]}         \* amount = 1 x the price
NoPrice == 0                             \* custom_price is None
\* get_live_price(symbol)["price"] and the custom prices offered
LivePrice(symbol) == IF IsBist(symbol) THEN 100000 ELSE 50000   \* 10 TRY, 5 USD
CustomPrices(symbol) == {LivePrice(symbol)}

(***************************************************************************)
(* Responses.  last = [op, status, validation, error, symbol, pnl]:        *)
(*   validation is what pre_validate_new_transaction / the delete          *)
(*   validator answered ("none" when the handler did not call it),         *)
(*   error the kind of balance an error names, symbol the symbol it names, *)
(*   pnl the realized_pnl_usd of a sale (0 in every other response).       *)
(***************************************************************************)
Response(op, status, validation, error, symbol) ==
    [op |-> op, status |-> status, validation |-> validation,
     error |-> error, symbol |-> symbol, pnl |-> 0]

Ok(op, validation) == Response(op, "ok", validation, "", NoSymbol)

\* HTTPException(400, detail=vr["error"])
Invalid(op, vr) == Response(op, "error", "invalid", vr.error, vr.symbol)

\* HTTPException(400, detail=result["error"]) for an error of the service
ServiceError(op, validation, error, symbol) ==
    Response(op, "error", validation, error, symbol)

\* an empty FX cache
NoRate == <<>>
StartClock == 1000        \* the time of the first request, in seconds

\* the Portfolio row that get_or_create_portfolio made for the user of the
\* ledger: the rows of the variables above belong to it
DefaultName == "Ana Portföy"
FirstPortfolio == [id |-> 1, username |-> "A", name |-> DefaultName, txs |-> {}]

\* the server processes, and a process with no request in flight
Workers == {"w1", "w2"}
Idle == [pc |-> "idle", op |-> "none", arg |-> 0, log |-> {}, cash_usd |-> 0]

Init ==
    /\ log = {}
    /\ cash_usd = 0
    /\ cash_try = 0
    /\ interest_balance_usd = 0
    /\ interest_balance_try = 0
    /\ total_deposited_usd = 0
    /\ total_deposited_try = 0
    /\ holdings = EmptyDict
    /\ now = StartTime
    /\ last = Response("none", "ok", "none", "", NoSymbol)
    /\ sessions = [w \in Workers |-> Idle]
    /\ fx_cache = NoRate
    /\ clock = StartClock
    /\ portfolios = {FirstPortfolio}

balances == <<cash_usd, cash_try, interest_balance_usd, interest_balance_try,
              total_deposited_usd, total_deposited_try, holdings>>

\* room for one more row within the bounds max_tx and max_inserts
Room(max_tx, max_inserts) ==
    Cardinality(log) < max_tx /\ now - StartTime < max_inserts

\* an insert that stamps every stored row again
AddTxRestamped(tx) == /\ log' = {[t EXCEPT !.created_at = now] : t \in log}
                                \cup {tx}
                      /\ now' = now + 1

\* db.add(tx); db.commit(): the row gets the next id and created_at = utcnow()
AddTx(tx) == /\ log' = log \cup {tx}
             /\ now' = now + 1

\* a request that fails changes nothing but the response
Reject(resp) == /\ last' = resp
                /\ UNCHANGED <<log, now, balances>>

(***************************************************************************)
(* POST /api/portfolio/deposit: portfolio_deposit, deposit, deposit_usd.   *)
(***************************************************************************)
\* deposit: amount_usd = round(amount_try / rate, 4) at the rate, a rational,
\* that get_usd_try_rate returns
deposit(amount_try, transaction_date, rate) ==
    LET amount_usd == Round4(RatDiv(RatInt(amount_try), rate))
        tx == MkTx(now, "deposit", NoSymbol, 0, amount_usd, amount_try,
                   {"TRY"}, "", transaction_date, 0, 0)
    IN  /\ AddTx(tx)
        /\ total_deposited_try' = total_deposited_try + amount_try
        /\ total_deposited_usd' = total_deposited_usd + amount_usd
        /\ cash_try' = cash_try + amount_try
        /\ UNCHANGED cash_usd

portfolio_deposit(currency, amt, date, rate) ==
    /\ IF currency = "USD"
       THEN \* deposit_usd
            LET amount_try == Round2(Rat(amt * rate, 1))
                tx == MkTx(now, "deposit", NoSymbol, 0, amt, amount_try,
                           {"$"}, "", date, 0, 0)
            IN  /\ AddTx(tx)
                /\ total_deposited_usd' = total_deposited_usd + amt
                /\ total_deposited_try' = total_deposited_try + amount_try
                /\ cash_usd' = cash_usd + amt
                /\ UNCHANGED cash_try
       ELSE deposit(amt, date, RatInt(rate))
    /\ last' = Ok("deposit", "none")
    /\ UNCHANGED <<interest_balance_usd, interest_balance_try, holdings>>

(***************************************************************************)
(* POST /api/portfolio/withdraw: portfolio_withdraw, withdraw,             *)
(* withdraw_try.                                                           *)
(***************************************************************************)
\* a withdrawal that is stored without any balance check
withdraw_unchecked(currency, amt, date, rate) ==
    /\ IF currency = "TRY"
       THEN /\ AddTx(MkTx(now, "withdraw", NoSymbol, 0, Round4(Rat(amt, rate)),
                          amt, {"TRY"}, "", date, 0, 0))
            /\ cash_try' = cash_try - amt
            /\ UNCHANGED cash_usd
       ELSE /\ AddTx(MkTx(now, "withdraw", NoSymbol, 0, amt,
                          Round2(Rat(amt * rate, 1)), {}, "", date, 0, 0))
            /\ cash_usd' = cash_usd - amt
            /\ UNCHANGED cash_try
    /\ last' = Ok("withdraw", "none")
    /\ UNCHANGED <<interest_balance_usd, interest_balance_try,
                   total_deposited_usd, total_deposited_try, holdings>>

portfolio_withdraw(currency, amt, date, rate) ==
    /\ IF currency = "TRY"
       THEN LET vr == pre_validate_new_transaction(log,
                        Candidate("withdraw", NoSymbol, 0, 0, amt,
                                  {"TL", "TRY"}, "", date), now)
                tx == MkTx(now, "withdraw", NoSymbol, 0,
                           Round4(Rat(amt, rate)), amt, {"TRY"}, "", date, 0, 0)
            IN  IF ~vr.valid THEN Reject(Invalid("withdraw", vr))
                ELSE IF cash_try < amt   \* withdraw_try
                THEN Reject(ServiceError("withdraw", "valid", "TRY", NoSymbol))
                ELSE /\ AddTx(tx)
                     /\ cash_try' = cash_try - amt
                     /\ last' = Ok("withdraw", "valid")
                     /\ UNCHANGED <<cash_usd, interest_balance_usd,
                                    interest_balance_try, total_deposited_usd,
                                    total_deposited_try, holdings>>
       ELSE LET vr == pre_validate_new_transaction(log,
                        Candidate("withdraw", NoSymbol, 0, amt, 0,
                                  {"$"}, "", date), now)
                tx == MkTx(now, "withdraw", NoSymbol, 0, amt,
                           Round2(Rat(amt * rate, 1)), {}, "", date, 0, 0)
            IN  IF ~vr.valid THEN Reject(Invalid("withdraw", vr))
                ELSE IF cash_usd < amt   \* withdraw
                THEN Reject(ServiceError("withdraw", "valid", "USD", NoSymbol))
                ELSE /\ AddTx(tx)
                     /\ cash_usd' = cash_usd - amt
                     /\ last' = Ok("withdraw", "valid")
                     /\ UNCHANGED <<cash_try, interest_balance_usd,
                                    interest_balance_try, total_deposited_usd,
                                    total_deposited_try, holdings>>

(***************************************************************************)
(* POST /api/portfolio/exchange: portfolio_exchange, exchange_currency.    *)
(***************************************************************************)
portfolio_exchange(amount_try, rate, direction, date) ==
    LET amount_usd == Round4(Rat(amount_try, rate))
        note == IF direction = "buy_usd"
                THEN {"Bought", "$", "TL"} ELSE {"$", "TL"}
        vr == pre_validate_new_transaction(log,
                  Candidate("exchange", NoSymbol, 0, amount_usd, amount_try,
                            note, "", date), now)
        \* the stored notes: "Bought $.. USD with TL.. TRY at .." and
        \* "Sold $.. USD for TL.. TRY at .."
        tx == MkTx(now, "exchange", NoSymbol, 0, amount_usd, amount_try,
                   note \cup {"TRY"}, "", date, 0, 0)
    IN
    /\ IF amount_try <= 0 \/ rate <= 0
       THEN Reject(ServiceError("exchange", "none", "positive", NoSymbol))
       ELSE IF ~vr.valid THEN Reject(Invalid("exchange", vr))
       ELSE IF direction = "buy_usd"
       THEN IF cash_try < amount_try
            THEN Reject(ServiceError("exchange", "valid", "TRY", NoSymbol))
            ELSE /\ cash_try' = cash_try - amount_try
                 /\ cash_usd' = cash_usd + amount_usd
                 /\ AddTx(tx)
                 /\ last' = Ok("exchange", "valid")
                 /\ UNCHANGED <<interest_balance_usd, interest_balance_try,
                                total_deposited_usd, total_deposited_try,
                                holdings>>
       ELSE IF cash_usd < amount_usd
            THEN Reject(ServiceError("exchange", "valid", "USD", NoSymbol))
            ELSE /\ cash_usd' = cash_usd - amount_usd
                 /\ cash_try' = cash_try + amount_try
                 /\ AddTx(tx)
                 /\ last' = Ok("exchange", "valid")
                 /\ UNCHANGED <<interest_balance_usd, interest_balance_try,
                                total_deposited_usd, total_deposited_try,
                                holdings>>

(***************************************************************************)
(* POST /api/portfolio/buy: portfolio_buy, buy_asset.                      *)
(* order.amount is amount_try for a BIST symbol and amount_usd otherwise.  *)
(***************************************************************************)
\* quantity * price and amount / price; exact for the orders offered
Times(quantity, price) ==
    LET product == RatMul(RatInt(price), Rat(quantity, Scale))
    IN  product[1] \div product[2]
Per(amount, price) == (amount * Scale) \div price

\* the amount of an amount-based order
OrderAmount(order, symbol) == order.amount * LivePrice(symbol)

\* the candidate that portfolio_buy / portfolio_sell hand to the validator
TradeCandidate(tx_type, symbol, order, price, date) ==
    LET is_bist == IsBist(symbol)
        amt == OrderAmount(order, symbol)
        qty == IF order.quantity # 0 THEN order.quantity
               ELSE IF amt # 0 THEN Per(amt, price) ELSE 0
        in_try == IF is_bist
                  THEN IF amt # 0 THEN amt ELSE Times(order.quantity, price)
                  ELSE 0
        in_usd == IF ~is_bist
                  THEN IF amt # 0 THEN amt ELSE Times(order.quantity, price)
                  ELSE 0
        mark == IF tx_type = "buy" THEN {"Bought"} ELSE {}
    IN  Candidate(tx_type, symbol, qty, in_usd, in_try,
                  mark \cup (IF is_bist THEN {"TL"} ELSE {"$"}),
                  IF is_bist THEN "TRY" ELSE "USD", date)

\* a holding whose average cost is overwritten by the latest price
BuyHoldingAtLastPrice(h, symbol, quantity, price_usd) ==
    DictPut(h, symbol,
            [quantity |-> (IF symbol \in DOMAIN h THEN h[symbol].quantity ELSE 0)
                              + quantity,
             avg_cost_usd |-> RatInt(price_usd)])

\* the new average of buy_asset:
\* round((avg_cost_usd * quantity + price_usd * bought) / total_qty, 4)
BuyHolding(h, symbol, quantity, price_usd) ==
    IF symbol \in DOMAIN h
    THEN LET total_qty == h[symbol].quantity + quantity
             avg == Round4(RatDiv(
                        RatAdd(RatMul(h[symbol].avg_cost_usd,
                                      Rat(h[symbol].quantity, Scale)),
                               RatMul(RatInt(price_usd), Rat(quantity, Scale))),
                        Rat(total_qty, Scale)))
         IN  DictPut(h, symbol,
                     [quantity |-> total_qty, avg_cost_usd |-> RatInt(avg)])
    ELSE DictPut(h, symbol,
                 [quantity |-> quantity, avg_cost_usd |-> RatInt(price_usd)])

buy_asset(symbol, order, custom_price, date, rate, validation) ==
    LET price == IF custom_price # NoPrice THEN custom_price
                 ELSE LivePrice(symbol)
        amt == OrderAmount(order, symbol)
        quantity == IF order.quantity # 0 THEN order.quantity
                    ELSE Round4(Rat(amt * Scale, price))
    IN
    IF IsBist(symbol)
    THEN LET total_cost_try == Round2(RatMul(RatInt(price), Rat(quantity, Scale)))
             price_usd == Round4(Rat(price, rate))
             total_cost_usd == Round4(Rat(total_cost_try, rate))
             tx == MkTx(now, "buy", symbol, quantity, total_cost_usd,
                        total_cost_try, {"Bought", "TL"}, "TRY", date, 0, 0)
         IN  IF cash_try < total_cost_try
             THEN Reject(ServiceError("buy", validation, "TRY", NoSymbol))
             ELSE /\ AddTx(tx)
                  /\ holdings' = BuyHolding(holdings, symbol, quantity, price_usd)
                  /\ cash_try' = cash_try - total_cost_try
                  /\ last' = Ok("buy", validation)
                  /\ UNCHANGED <<cash_usd, interest_balance_usd,
                                 interest_balance_try, total_deposited_usd,
                                 total_deposited_try>>
    ELSE LET total_cost == Round4(RatMul(RatInt(price), Rat(quantity, Scale)))
             tx == MkTx(now, "buy", symbol, quantity, total_cost,
                        Round2(Rat(total_cost * rate, 1)),
                        {"Bought", "$"}, "USD", date, 0, 0)
         IN  IF cash_usd < total_cost
             THEN Reject(ServiceError("buy", validation, "USD", NoSymbol))
             ELSE /\ AddTx(tx)
                  /\ holdings' = BuyHolding(holdings, symbol, quantity, price)
                  /\ cash_usd' = cash_usd - total_cost
                  /\ last' = Ok("buy", validation)
                  /\ UNCHANGED <<cash_try, interest_balance_usd,
                                 interest_balance_try, total_deposited_usd,
                                 total_deposited_try>>

\* a purchase that is stored without being paid for
buy_without_payment(symbol, order, custom_price, date, rate) ==
    /\ AddTx(MkTx(now, "buy", symbol, order.quantity, 0, 0, {"Bought", "$"},
                  "USD", date, 0, 0))
    /\ holdings' = BuyHolding(holdings, symbol, order.quantity, custom_price)
    /\ last' = Ok("buy", "none")
    /\ UNCHANGED <<cash_usd, cash_try, interest_balance_usd,
                   interest_balance_try, total_deposited_usd,
                   total_deposited_try>>

\* the handler validates only "if price > 0", price = req.custom_price or 0
portfolio_buy(symbol, order, custom_price, date, rate) ==
    /\ IF order.quantity = 0 /\ order.amount = 0
       THEN Reject(ServiceError("buy", "none", "quantity", NoSymbol))
       ELSE IF custom_price > 0
       THEN LET vr == pre_validate_new_transaction(log,
                        TradeCandidate("buy", symbol, order, custom_price, date),
                        now)
            IN  IF ~vr.valid THEN Reject(Invalid("buy", vr))
                ELSE buy_asset(symbol, order, custom_price, date, rate, "valid")
       ELSE buy_asset(symbol, order, custom_price, date, rate, "none")

(***************************************************************************)
(* POST /api/portfolio/sell: portfolio_sell, sell_asset.                   *)
(***************************************************************************)
\* pnl = round((price_usd - holding.avg_cost_usd) * quantity, 4)
RealizedPnl(h, symbol, quantity, price_usd) ==
    Round4(RatMul(RatSub(RatInt(price_usd), h[symbol].avg_cost_usd),
                  Rat(quantity, Scale)))

\* the response of a sale
Sold(validation, pnl) == [Ok("sell", validation) EXCEPT !.pnl = pnl]

\* holding.quantity -= quantity; if holding.quantity <= 0.0001: db.delete(holding)
SellHolding(h, symbol, quantity) ==
    IF h[symbol].quantity - quantity <= DustQty
    THEN DictDel(h, symbol)
    ELSE [h EXCEPT ![symbol].quantity = @ - quantity]

sell_asset(symbol, order, custom_price, date, rate, validation) ==
    LET price == IF custom_price # NoPrice THEN custom_price
                 ELSE LivePrice(symbol)
        amt == OrderAmount(order, symbol)
        quantity == IF order.quantity # 0 THEN order.quantity
                    ELSE Round4(Rat(amt * Scale, price))
    IN
    IF symbol \notin DOMAIN holdings \/ holdings[symbol].quantity < quantity
    THEN Reject(ServiceError("sell", validation, "holding", NoSymbol))
    ELSE IF IsBist(symbol)
    THEN LET total_value_try == Round2(RatMul(RatInt(price), Rat(quantity, Scale)))
             price_usd == Round4(Rat(price, rate))
             total_value_usd == Round4(Rat(total_value_try, rate))
             tx == MkTx(now, "sell", symbol, quantity, total_value_usd,
                        total_value_try, {"TL"}, "TRY", date, 0, 0)
         IN  /\ AddTx(tx)
             /\ holdings' = SellHolding(holdings, symbol, quantity)
             /\ cash_try' = cash_try + total_value_try
             /\ last' = Sold(validation,
                             RealizedPnl(holdings, symbol, quantity, price_usd))
             /\ UNCHANGED <<cash_usd, interest_balance_usd,
                            interest_balance_try, total_deposited_usd,
                            total_deposited_try>>
    ELSE LET total_value == Round4(RatMul(RatInt(price), Rat(quantity, Scale)))
             tx == MkTx(now, "sell", symbol, quantity, total_value,
                        Round2(Rat(total_value * rate, 1)),
                        {"$"}, "USD", date, 0, 0)
         IN  /\ AddTx(tx)
             /\ holdings' = SellHolding(holdings, symbol, quantity)
             /\ cash_usd' = cash_usd + total_value
             /\ last' = Sold(validation,
                             RealizedPnl(holdings, symbol, quantity, price))
             /\ UNCHANGED <<cash_try, interest_balance_usd,
                            interest_balance_try, total_deposited_usd,
                            total_deposited_try>>

portfolio_sell(symbol, order, custom_price, date, rate) ==
    /\ IF order.quantity = 0 /\ order.amount = 0
       THEN Reject(ServiceError("sell", "none", "quantity", NoSymbol))
       ELSE IF custom_price > 0
       THEN LET vr == pre_validate_new_transaction(log,
                        TradeCandidate("sell", symbol, order, custom_price, date),
                        now)
            IN  IF ~vr.valid THEN Reject(Invalid("sell", vr))
                ELSE sell_asset(symbol, order, custom_price, date, rate, "valid")
       ELSE sell_asset(symbol, order, custom_price, date, rate, "none")

\* a deposit at interest that is debited before its dates are found bad
interest_in_debits_first(currency, amount, annual_rate, start_date, days, rate) ==
    /\ cash_usd' = cash_usd - amount
    /\ interest_balance_usd' = interest_balance_usd + amount
    /\ last' = ServiceError("interest_in", "valid", "dates", NoSymbol)
    /\ UNCHANGED <<log, now, cash_try, interest_balance_try,
                   total_deposited_usd, total_deposited_try, holdings>>

(***************************************************************************)
(* POST /api/portfolio/interest/in: portfolio_interest_in, interest_in,    *)
(* interest_in_try.  The effective date of the row is start_date.          *)
(***************************************************************************)
portfolio_interest_in(currency, amount, annual_rate, start_date, days, rate) ==
    /\ IF currency = "TRY"
       THEN LET vr == pre_validate_new_transaction(log,
                        Candidate("interest_in", NoSymbol, 0, 0, amount,
                                  {"TL", "TRY"}, "", start_date), now)
                \* round(amount_try * (annual_rate / 100) * (days / 365), 2)
                earned == Round2(RatMul(RatMul(RatInt(amount), Rat(annual_rate, 100)),
                                        Rat(days, 365)))
                tx == MkTx(now, "interest_in", NoSymbol, 0,
                           Round4(Rat(amount, rate)), amount,
                           {"TRY", "TL"}, "", start_date, 0, earned)
            IN  IF ~vr.valid THEN Reject(Invalid("interest_in", vr))
                ELSE IF cash_try < amount   \* interest_in_try
                THEN Reject(ServiceError("interest_in", "valid", "TRY", NoSymbol))
                ELSE IF days <= 0           \* end_dt <= start_dt
                THEN Reject(ServiceError("interest_in", "valid", "dates", NoSymbol))
                ELSE /\ AddTx(tx)
                     /\ cash_try' = cash_try - amount
                     /\ interest_balance_try' = interest_balance_try + amount
                     /\ last' = Ok("interest_in", "valid")
                     /\ UNCHANGED <<cash_usd, interest_balance_usd,
                                    total_deposited_usd, total_deposited_try,
                                    holdings>>
       ELSE LET vr == pre_validate_new_transaction(log,
                        Candidate("interest_in", NoSymbol, 0, amount, 0,
                                  {"$"}, "", start_date), now)
                \* round(amount_usd * (annual_rate / 100) * (days / 365), 4)
                earned == Round4(RatMul(RatMul(RatInt(amount), Rat(annual_rate, 100)),
                                        Rat(days, 365)))
                tx == MkTx(now, "interest_in", NoSymbol, 0, amount,
                           Round2(Rat(amount * rate, 1)),
                           {"$"}, "", start_date, earned, 0)
            IN  IF ~vr.valid THEN Reject(Invalid("interest_in", vr))
                ELSE IF cash_usd < amount   \* interest_in
                THEN Reject(ServiceError("interest_in", "valid", "USD", NoSymbol))
                ELSE IF days <= 0           \* end_dt <= start_dt
                THEN Reject(ServiceError("interest_in", "valid", "dates", NoSymbol))
                ELSE /\ AddTx(tx)
                     /\ cash_usd' = cash_usd - amount
                     /\ interest_balance_usd' = interest_balance_usd + amount
                     /\ last' = Ok("interest_in", "valid")
                     /\ UNCHANGED <<cash_try, interest_balance_try,
                                    total_deposited_usd, total_deposited_try,
                                    holdings>>

(***************************************************************************)
(* POST /api/portfolio/interest/out: portfolio_interest_out, interest_out, *)
(* interest_out_try.  The handler does not call the validator and the row  *)
(* has no effective date.                                                  *)
(***************************************************************************)
portfolio_interest_out(currency, amount, earned, rate) ==
    LET total_back == amount + earned IN
    /\ IF currency = "TRY"
       THEN LET tx == MkTx(now, "interest_out", NoSymbol, 0,
                           Round4(Rat(total_back, rate)), total_back,
                           {"TRY", "TL"}, "", None, 0, earned)
            IN  IF interest_balance_try < amount
                THEN Reject(ServiceError("interest_out", "none",
                                         "interest_TRY", NoSymbol))
                ELSE /\ AddTx(tx)
                     /\ interest_balance_try' = interest_balance_try - amount
                     /\ cash_try' = cash_try + total_back
                     /\ last' = Ok("interest_out", "none")
                     /\ UNCHANGED <<cash_usd, interest_balance_usd,
                                    total_deposited_usd, total_deposited_try,
                                    holdings>>
       ELSE LET tx == MkTx(now, "interest_out", NoSymbol, 0, total_back,
                           Round2(Rat(total_back * rate, 1)),
                           {"$"}, "", None, earned, 0)
            IN  IF interest_balance_usd < amount
                THEN Reject(ServiceError("interest_out", "none",
                                         "interest_USD", NoSymbol))
                ELSE /\ AddTx(tx)
                     /\ interest_balance_usd' = interest_balance_usd - amount
                     /\ cash_usd' = cash_usd + total_back
                     /\ last' = Ok("interest_out", "none")
                     /\ UNCHANGED <<cash_try, interest_balance_try,
                                    total_deposited_usd, total_deposited_try,
                                    holdings>>

(***************************************************************************)
(* DELETE /api/portfolio/transactions/{tx_id}: delete_transaction.         *)
(***************************************************************************)
delete_transaction(tx_id) ==
    IF \A t \in log : t.id # tx_id
    THEN Reject(ServiceError("delete", "none", "not_found", NoSymbol))
    ELSE LET validation == validate_transaction_timeline(log, tx_id)
             rest == {t \in log : t.id # tx_id}
             st == _recalculate_portfolio_balances(rest)
         IN  IF ~validation.valid THEN Reject(Invalid("delete", validation))
             ELSE /\ log' = rest
                  /\ cash_usd' = st.cash_usd
                  /\ cash_try' = st.cash_try
                  /\ interest_balance_usd' = st.interest_usd
                  /\ interest_balance_try' = st.interest_try
                  /\ total_deposited_usd' = st.total_deposited_usd
                  /\ total_deposited_try' = st.total_deposited_try
                  /\ holdings' = st.holdings
                  /\ last' = Ok("delete", "valid")
                  /\ UNCHANGED now

(***************************************************************************)
(* The requests of one client, one after the other.                        *)
(***************************************************************************)
Deposit ==
    /\ Room(MaxTx, MaxInserts)
    /\ UNCHANGED <<sessions, fx_cache, clock, portfolios>>
    /\ \E currency \in {"USD", "TRY"}, date \in DateInputs, rate \in UsdTryRates :
        \E amt \in (IF currency = "USD" THEN UsdDeposits ELSE TryDeposits) :
            portfolio_deposit(currency, amt, date, rate)

Withdraw ==
    /\ Room(MaxTx, MaxInserts)
    /\ UNCHANGED <<sessions, fx_cache, clock, portfolios>>
    /\ \E currency \in {"USD", "TRY"}, date \in DateInputs, rate \in UsdTryRates :
        \E amt \in (IF currency = "USD" THEN UsdWithdrawals ELSE TryWithdrawals) :
            portfolio_withdraw(currency, amt, date, rate)

Exchange ==
    /\ Room(MaxTx, MaxInserts)
    /\ UNCHANGED <<sessions, fx_cache, clock, portfolios>>
    /\ \E amount_try \in ExchangeTry, rate \in UsdTryRates,
       direction \in {"buy_usd", "sell_usd"}, date \in DateInputs :
        portfolio_exchange(amount_try, rate, direction, date)

Buy ==
    /\ Room(MaxTx, MaxInserts)
    /\ UNCHANGED <<sessions, fx_cache, clock, portfolios>>
    /\ \E symbol \in Symbols, order \in Orders, date \in DateInputs,
       rate \in UsdTryRates :
        \E custom_price \in {NoPrice} \cup CustomPrices(symbol) :
            portfolio_buy(symbol, order, custom_price, date, rate)

Sell ==
    /\ Room(MaxTx, MaxInserts)
    /\ UNCHANGED <<sessions, fx_cache, clock, portfolios>>
    /\ \E symbol \in Symbols, order \in Orders, date \in DateInputs,
       rate \in UsdTryRates :
        \E custom_price \in {NoPrice} \cup CustomPrices(symbol) :
            portfolio_sell(symbol, order, custom_price, date, rate)

InterestIn ==
    /\ Room(MaxTx, MaxInserts)
    /\ UNCHANGED <<sessions, fx_cache, clock, portfolios>>
    /\ \E currency \in {"USD", "TRY"}, annual_rate \in AnnualRates,
       start_date \in Dates, days \in InterestDays, rate \in UsdTryRates :
        \E amount \in (IF currency = "USD" THEN InterestUsd ELSE InterestTry) :
            portfolio_interest_in(currency, amount, annual_rate, start_date,
                                  days, rate)

InterestOut ==
    /\ Room(MaxTx, MaxInserts)
    /\ UNCHANGED <<sessions, fx_cache, clock, portfolios>>
    /\ \E currency \in {"USD", "TRY"}, earned \in Earned, rate \in UsdTryRates :
        \E amount \in (IF currency = "USD" THEN InterestUsd ELSE InterestTry) :
            portfolio_interest_out(currency, amount, earned, rate)

Delete ==
    /\ UNCHANGED <<sessions, fx_cache, clock, portfolios>>
    /\ \E tx_id \in StartTime..(now - 1) : delete_transaction(tx_id)

Next ==
    \/ Deposit
    \/ Withdraw
    \/ Exchange
    \/ Buy
    \/ Sell
    \/ InterestIn
    \/ InterestOut
    \/ Delete

Spec == Init /\ [][Next]_vars

\* the same requests without deletes: a history of inserts only
NextInserts ==
    \/ Deposit
    \/ Withdraw
    \/ Exchange
    \/ Buy
    \/ Sell
    \/ InterestIn
    \/ InterestOut

SpecInserts == Init /\ [][NextInserts]_vars

(***************************************************************************)
(* Definitions shared by the properties.                                   *)
(***************************************************************************)
\* the latest effective date of the log: a cutoff that replays the whole log
LatestDate(txs) ==
    LET ds == {EffectiveDate(t) : t \in txs} \cup {now}
    IN  CHOOSE d \in ds : \A e \in ds : e <= d

\* the replay engine on the whole log, and on its first k rows
ReplayAll(txs) == _replay_state_at_date(CanonicalOrder(txs), LatestDate(txs))
ReplayPrefix(txs, k) ==
    _replay_state_at_date(SubSeq(CanonicalOrder(txs), 1, k), LatestDate(txs))

\* the quantity of symbol s bought minus sold in the first k rows of ordered
RECURSIVE NetQuantity(_, _, _)
NetQuantity(ordered, k, s) ==
    IF k = 0 THEN 0
    ELSE NetQuantity(ordered, k - 1, s)
         + (IF ordered[k].symbol # s THEN 0
            ELSE IF ordered[k].tx_type = "buy" THEN ordered[k].quantity
            ELSE IF ordered[k].tx_type = "sell" THEN 0 - ordered[k].quantity
            ELSE 0)

\* some balance is negative after the first k rows of the canonical order
NegativeAfter(txs, k, slack) ==
    LET st == ReplayPrefix(txs, k)
    IN  \/ st.cash_try < slack
        \/ st.cash_usd < slack
        \/ st.interest_try < slack
        \/ st.interest_usd < slack
        \/ \E s \in Symbols : NetQuantity(CanonicalOrder(txs), k, s) < slack

\* the row a candidate becomes when it is stored at time t
RowOf(c, t) ==
    MkTx(t, c.tx_type, c.symbol, c.quantity, c.amount_usd, c.amount_try,
         c.note, c.trade_currency, c.transaction_date,
         c.interest_earned_usd, c.interest_earned_try)

\* a stored row seen as the candidate it was
CandidateOf(tx) ==
    [tx_type |-> tx.tx_type, symbol |-> tx.symbol, quantity |-> tx.quantity,
     amount_usd |-> tx.amount_usd, amount_try |-> tx.amount_try,
     note |-> tx.note, trade_currency |-> tx.trade_currency,
     transaction_date |-> tx.transaction_date,
     interest_earned_usd |-> tx.interest_earned_usd,
     interest_earned_try |-> tx.interest_earned_try]

\* the candidates the handlers can hand to the insert validator
Candidates ==
    {Candidate("withdraw", NoSymbol, 0, amt, 0, {"$"}, "", date) :
        amt \in UsdWithdrawals, date \in DateInputs}
    \cup {Candidate("withdraw", NoSymbol, 0, 0, amt, {"TL", "TRY"}, "", date) :
        amt \in TryWithdrawals, date \in DateInputs}
    \cup {Candidate("exchange", NoSymbol, 0, Round4(Rat(amt, rate)), amt,
                    {"Bought", "$", "TL"}, "", date) :
        amt \in ExchangeTry, rate \in UsdTryRates, date \in DateInputs}
    \cup {Candidate("exchange", NoSymbol, 0, Round4(Rat(amt, rate)), amt,
                    {"$", "TL"}, "", date) :
        amt \in ExchangeTry, rate \in UsdTryRates, date \in DateInputs}
    \cup {Candidate("interest_in", NoSymbol, 0, amt, 0, {"$"}, "", date) :
        amt \in InterestUsd, date \in Dates}
    \cup {Candidate("interest_in", NoSymbol, 0, 0, amt, {"TL", "TRY"}, "", date) :
        amt \in InterestTry, date \in Dates}
    \cup UNION {{TradeCandidate(kind, s, o, LivePrice(s), date) :
                    o \in Orders, date \in DateInputs} :
                kind \in {"buy", "sell"}, s \in Symbols}

(***************************************************************************)
(* C1.  Non-negativity of the timeline: at every prefix of the canonical   *)
(* order of the stored log, the replayed cash and interest balances and    *)
(* every holding quantity are >= 0 within the tolerance of 0.01.           *)
(***************************************************************************)
NonNegativeTimeline ==
    \A k \in 0..Cardinality(log) : ~NegativeAfter(log, k, TOLERANCE)

(***************************************************************************)
(* C2.  Cache equals replay: after any sequence of successful inserts the  *)
(* cached balances, deposited totals and the quantity of every Holding row *)
(* equal the replay of the whole log in canonical order.                   *)
(***************************************************************************)
CacheEqualsReplay ==
    LET st == ReplayAll(log)
    IN  /\ cash_try = st.cash_try
        /\ cash_usd = st.cash_usd
        /\ interest_balance_try = st.interest_try
        /\ interest_balance_usd = st.interest_usd
        /\ total_deposited_try = st.total_deposited_try
        /\ total_deposited_usd = st.total_deposited_usd
        /\ DOMAIN holdings = DOMAIN st.holdings
        /\ \A s \in DOMAIN holdings : holdings[s].quantity = st.holdings[s].qty

(***************************************************************************)
(* C6.  Validation precedes every mutation: a row is appended to the log   *)
(* only if the insert validator accepts the log with that row spliced in   *)
(* as the candidate.                                                       *)
(***************************************************************************)
ValidationPrecedesMutation ==
    [][\A tx \in log' \ log :
          pre_validate_new_transaction(log, CandidateOf(tx), now).valid]_vars

(***************************************************************************)
(* C8.  The two timeline validators agree: for the stored log and every    *)
(* candidate, the insert validator answers valid exactly when the delete   *)
(* validator answers valid on the log with the candidate appended.         *)
(***************************************************************************)
ValidatorsAgree ==
    \A c \in Candidates :
        pre_validate_new_transaction(log, c, now).valid
        <=> validate_transaction_timeline(log \cup {RowOf(c, now)}, 0).valid

(***************************************************************************)
(* C9.  The insert validator walks the merged list in the canonical order: *)
(* dated rows by date, then undated rows by insertion, the candidate at    *)
(* its canonical position.                                                 *)
(***************************************************************************)
PreValidateWalksCanonicalOrder ==
    \A c \in Candidates :
        LET merged == CanonicalOrder(log \cup {RowOf(c, now)})
        IN  PreValidateEntries(log, c, now)
            = [i \in 1..Len(merged) |-> EntryOf(merged[i])]

(***************************************************************************)
(* C10.  Tolerance of the insert validator: a subtraction is accepted when *)
(* the resulting balance is not below -tolerance; in particular a          *)
(* candidate that uses exactly the available cash, or sells exactly the    *)
(* whole holding, is accepted.                                             *)
(***************************************************************************)
\* the walk state just before the candidate's position
StateBefore(txs, c, t) ==
    LET entries == PreValidateEntries(txs, c, t)
        d == NewEntry(c, t).date
        before == Cardinality({i \in 1..Len(entries) : entries[i].date <= d}) - 1
    IN  PreValidateWalk(SubSeq(entries, 1, before), 1, WalkStart)

\* the balance the candidate draws on, less what it takes
BalanceLeft(st, c) ==
    CASE c.tx_type = "withdraw" ->
           IF "TRY" \in c.note THEN st.cash_try - c.amount_try
           ELSE st.cash_usd - c.amount_usd
      [] c.tx_type = "buy" ->
           IF PaysInTry(c.trade_currency, c.symbol, c.note)
           THEN st.cash_try - c.amount_try ELSE st.cash_usd - c.amount_usd
      [] c.tx_type = "sell" -> st.holdings[c.symbol] - c.quantity
      [] c.tx_type = "interest_in" ->
           IF "TRY" \in c.note THEN st.cash_try - c.amount_try
           ELSE st.cash_usd - c.amount_usd
      [] c.tx_type = "exchange" ->
           IF IsBuyUsd(c.note) THEN st.cash_try - c.amount_try
           ELSE st.cash_usd - c.amount_usd
      [] OTHER -> 0

InsertToleranceAccepts ==
    \A c \in Candidates :
        LET st == StateBefore(log, c, now)
        IN  (st.valid /\ BalanceLeft(st, c) >= TOLERANCE)
            => PreValidateStep(st, NewEntry(c, now)).valid

(***************************************************************************)
(* Trades at the live price on one asset, all undated, with deletes: a     *)
(* deeper history on fewer inputs.                                         *)
(***************************************************************************)
MaxTradeTx == 5
MaxTradeInserts == 5

TradeDeposit ==
    /\ Room(MaxTradeTx, MaxTradeInserts)
    /\ UNCHANGED <<sessions, fx_cache, clock, portfolios>>
    /\ \E amt \in UsdDeposits, rate \in UsdTryRates :
        portfolio_deposit("USD", amt, None, rate)

TradeBuy ==
    /\ Room(MaxTradeTx, MaxTradeInserts)
    /\ UNCHANGED <<sessions, fx_cache, clock, portfolios>>
    /\ \E order \in Orders, rate \in UsdTryRates :
        portfolio_buy("AAPL", order, NoPrice, None, rate)

TradeSell ==
    /\ Room(MaxTradeTx, MaxTradeInserts)
    /\ UNCHANGED <<sessions, fx_cache, clock, portfolios>>
    /\ \E order \in Orders, rate \in UsdTryRates :
        portfolio_sell("AAPL", order, NoPrice, None, rate)

NextTrades ==
    \/ TradeDeposit
    \/ TradeBuy
    \/ TradeSell
    \/ Delete

SpecTrades == Init /\ [][NextTrades]_vars

(***************************************************************************)
(* C3.  Delete/replay consistency: after a transaction is deleted (the     *)
(* delete validator having accepted its removal) the cached balances,      *)
(* deposited totals and every Holding's quantity and average cost          *)
(* (total cost / quantity) equal the replay of the remaining log.          *)
(***************************************************************************)
DeleteMatchesReplay ==
    (last.op = "delete" /\ last.status = "ok") =>
        LET st == ReplayAll(log)
        IN  /\ cash_try = st.cash_try
            /\ cash_usd = st.cash_usd
            /\ interest_balance_try = st.interest_try
            /\ interest_balance_usd = st.interest_usd
            /\ total_deposited_try = st.total_deposited_try
            /\ total_deposited_usd = st.total_deposited_usd
            /\ DOMAIN holdings = DOMAIN st.holdings
            /\ \A s \in DOMAIN holdings :
                /\ holdings[s].quantity = st.holdings[s].qty
                /\ holdings[s].avg_cost_usd
                   = RatDiv(st.holdings[s].total_cost_usd,
                            Rat(st.holdings[s].qty, Scale))

(***************************************************************************)
(* Interest deposits in USD over dated cash deposits, with deletes.        *)
(***************************************************************************)
MaxInterestTx == 4
MaxInterestInserts == 4

InterestDeposit ==
    /\ Room(MaxInterestTx, MaxInterestInserts)
    /\ UNCHANGED <<sessions, fx_cache, clock, portfolios>>
    /\ \E amt \in UsdDeposits, date \in Dates, rate \in UsdTryRates :
        portfolio_deposit("USD", amt, date, rate)

InterestPlace ==
    /\ Room(MaxInterestTx, MaxInterestInserts)
    /\ UNCHANGED <<sessions, fx_cache, clock, portfolios>>
    /\ \E amount \in InterestUsd, annual_rate \in AnnualRates,
       start_date \in Dates, days \in InterestDays, rate \in UsdTryRates :
        portfolio_interest_in("USD", amount, annual_rate, start_date, days, rate)

InterestReturn ==
    /\ Room(MaxInterestTx, MaxInterestInserts)
    /\ UNCHANGED <<sessions, fx_cache, clock, portfolios>>
    /\ \E amount \in InterestUsd, earned \in Earned, rate \in UsdTryRates :
        portfolio_interest_out("USD", amount, earned, rate)

NextInterest ==
    \/ InterestDeposit
    \/ InterestPlace
    \/ InterestReturn
    \/ Delete

SpecInterest == Init /\ [][NextInterest]_vars

(***************************************************************************)
(* C4.  Deletion is gated: a delete is refused when the remaining log, in  *)
(* canonical order, drives a cash balance, an interest balance or a        *)
(* holding negative at some prefix; a refused delete leaves the log, the   *)
(* cached balances and the Holdings unchanged.                             *)
(***************************************************************************)
DeletionIsGated ==
    [][/\ (last'.op = "delete" /\ last'.status = "ok")
            => \A k \in 0..Cardinality(log') : ~NegativeAfter(log', k, 0)
       /\ (last'.op = "delete" /\ last'.status # "ok")
            => UNCHANGED <<log, balances>>]_vars

(***************************************************************************)
(* Buys at the live price, dated or not, over undated deposits, and dated  *)
(* sells at a custom price.                                                *)
(***************************************************************************)
MaxBackdatedTx == 4
MaxBackdatedInserts == 4

BackdatedDeposit ==
    /\ Room(MaxBackdatedTx, MaxBackdatedInserts)
    /\ UNCHANGED <<sessions, fx_cache, clock, portfolios>>
    /\ \E currency \in {"USD", "TRY"}, rate \in UsdTryRates :
        \E amt \in (IF currency = "USD" THEN UsdDeposits ELSE TryDeposits) :
            portfolio_deposit(currency, amt, None, rate)

BackdatedBuy ==
    /\ Room(MaxBackdatedTx, MaxBackdatedInserts)
    /\ UNCHANGED <<sessions, fx_cache, clock, portfolios>>
    /\ \E symbol \in Symbols, date \in DateInputs, rate \in UsdTryRates :
        portfolio_buy(symbol, [quantity |-> Scale, amount |-> 0], NoPrice,
                      date, rate)

BackdatedSell ==
    /\ Room(MaxBackdatedTx, MaxBackdatedInserts)
    /\ UNCHANGED <<sessions, fx_cache, clock, portfolios>>
    /\ \E symbol \in Symbols, date \in Dates, rate \in UsdTryRates :
        \E custom_price \in CustomPrices(symbol) :
            portfolio_sell(symbol, [quantity |-> Scale, amount |-> 0],
                           custom_price, date, rate)

NextBackdated ==
    \/ BackdatedDeposit
    \/ BackdatedBuy
    \/ BackdatedSell

SpecBackdated == Init /\ [][NextBackdated]_vars

(***************************************************************************)
(* C5.  A backdated sell is rejected for its holding: for a symbol S that  *)
(* has buys in the log, a candidate sell of S dated before every buy of S  *)
(* is answered invalid by the insert validator with the                    *)
(* insufficient-holding failure naming S.                                  *)
(***************************************************************************)
BackdatedSellRejected ==
    \A s \in Symbols, date \in Dates :
        LET buys == {t \in log : t.tx_type = "buy" /\ t.symbol = s}
            c == TradeCandidate("sell", s, [quantity |-> Scale, amount |-> 0],
                                LivePrice(s), date)
            vr == pre_validate_new_transaction(log, c, now)
        IN  (buys # {} /\ \A b \in buys : date < EffectiveDate(b))
            => (~vr.valid /\ vr.error = "holding" /\ vr.symbol = s)

(***************************************************************************)
(* Two server processes on one portfolio.  A handler runs on its own       *)
(* database session (get_db) and takes no lock: it reads the Portfolio row *)
(* and the transactions, decides, and writes at db.commit().  Between the  *)
(* reads of one process and its commit the other process may commit; the   *)
(* session keeps what it has read (the identity map, and the consistent    *)
(* read of the default isolation level of the MySQL engine).               *)
(***************************************************************************)
MaxRaceTx == 3
MaxRaceInserts == 3
RaceWithdrawals == {60000}               \* 6 USD of a deposit of 10 USD

\* a session that has read the portfolio and its transactions
Reading(op, arg) ==
    [pc |-> "read", op |-> op, arg |-> arg, log |-> log, cash_usd |-> cash_usd]

RaceDeposit ==
    /\ Room(MaxRaceTx, MaxRaceInserts)
    /\ UNCHANGED <<sessions, fx_cache, clock, portfolios>>
    /\ \E amt \in UsdDeposits, rate \in UsdTryRates :
        portfolio_deposit("USD", amt, None, rate)

\* portfolio_withdraw up to the query of pre_validate_new_transaction
WithdrawRead(w) ==
    /\ Room(MaxRaceTx, MaxRaceInserts)
    /\ sessions[w].pc = "idle"
    /\ \E amt \in RaceWithdrawals :
        sessions' = [sessions EXCEPT ![w] = Reading("withdraw", amt)]
    /\ UNCHANGED <<fx_cache, clock, portfolios>>
    /\ UNCHANGED <<log, now, balances, last>>

\* the rest of portfolio_withdraw and withdraw, on what the session has read
WithdrawCommit(w) ==
    /\ sessions[w].pc = "read"
    /\ sessions[w].op = "withdraw"
    /\ sessions' = [sessions EXCEPT ![w] = Idle]
    /\ UNCHANGED <<fx_cache, clock, portfolios>>
    /\ \E rate \in UsdTryRates :
        LET amt == sessions[w].arg
            vr == pre_validate_new_transaction(sessions[w].log,
                      Candidate("withdraw", NoSymbol, 0, amt, 0, {"$"}, "", None),
                      now)
            tx == MkTx(now, "withdraw", NoSymbol, 0, amt,
                       Round2(Rat(amt * rate, 1)), {}, "", None, 0, 0)
        IN  IF ~vr.valid
            THEN /\ last' = Invalid("withdraw", vr)
                 /\ UNCHANGED <<log, now, balances>>
            ELSE IF sessions[w].cash_usd < amt
            THEN /\ last' = ServiceError("withdraw", "valid", "USD", NoSymbol)
                 /\ UNCHANGED <<log, now, balances>>
            ELSE /\ AddTx(tx)
                 /\ cash_usd' = sessions[w].cash_usd - amt
                 /\ last' = Ok("withdraw", "valid")
                 /\ UNCHANGED <<cash_try, interest_balance_usd,
                                interest_balance_try, total_deposited_usd,
                                total_deposited_try, holdings>>

\* delete_transaction up to the query of validate_transaction_timeline
DeleteRead(w) ==
    /\ sessions[w].pc = "idle"
    /\ \E tx \in log :
        sessions' = [sessions EXCEPT ![w] = Reading("delete", tx.id)]
    /\ UNCHANGED <<fx_cache, clock, portfolios>>
    /\ UNCHANGED <<log, now, balances, last>>

\* the rest of delete_transaction: the recompute runs on what the session
\* has read, less the deleted row
DeleteCommit(w) ==
    /\ sessions[w].pc = "read"
    /\ sessions[w].op = "delete"
    /\ sessions' = [sessions EXCEPT ![w] = Idle]
    /\ UNCHANGED <<fx_cache, clock, portfolios>>
    /\ LET tx_id == sessions[w].arg
           validation == validate_transaction_timeline(sessions[w].log, tx_id)
           st == _recalculate_portfolio_balances(
                     {t \in sessions[w].log : t.id # tx_id})
       IN  IF ~validation.valid
           THEN /\ last' = Invalid("delete", validation)
                /\ UNCHANGED <<log, now, balances>>
           ELSE /\ log' = {t \in log : t.id # tx_id}
                /\ cash_usd' = st.cash_usd
                /\ cash_try' = st.cash_try
                /\ interest_balance_usd' = st.interest_usd
                /\ interest_balance_try' = st.interest_try
                /\ total_deposited_usd' = st.total_deposited_usd
                /\ total_deposited_try' = st.total_deposited_try
                /\ holdings' = st.holdings
                /\ last' = Ok("delete", "valid")
                /\ UNCHANGED now

NextRace ==
    \/ RaceDeposit
    \/ \E w \in Workers : WithdrawRead(w)
    \/ \E w \in Workers : WithdrawCommit(w)
    \/ \E w \in Workers : DeleteRead(w)
    \/ \E w \in Workers : DeleteCommit(w)

SpecRace == Init /\ [][NextRace]_vars

(***************************************************************************)
(* C7.  Mutating operations on one portfolio are serialized across         *)
(* validate-then-append: whatever two requests are in flight together, the *)
(* committed log is one a serial execution produces, so at no prefix of    *)
(* its canonical order is a balance negative (two withdrawals that each    *)
(* fit the balance but together exceed it do not both commit; a deposit is *)
(* not deleted from under a withdrawal that depends on it).                *)
(***************************************************************************)
MutationsSerialized ==
    \A k \in 0..Cardinality(log) : ~NegativeAfter(log, k, 0)

(***************************************************************************)
(* Undated deposits in both currencies and withdrawals of USD.             *)
(***************************************************************************)
MaxCashTx == 3
MaxCashInserts == 3

CashDeposit ==
    /\ Room(MaxCashTx, MaxCashInserts)
    /\ UNCHANGED <<sessions, fx_cache, clock, portfolios>>
    /\ \E currency \in {"USD", "TRY"}, rate \in UsdTryRates :
        \E amt \in (IF currency = "USD" THEN UsdDeposits ELSE TryDeposits) :
            portfolio_deposit(currency, amt, None, rate)

CashWithdraw ==
    /\ Room(MaxCashTx, MaxCashInserts)
    /\ UNCHANGED <<sessions, fx_cache, clock, portfolios>>
    /\ \E amt \in UsdWithdrawals, rate \in UsdTryRates :
        portfolio_withdraw("USD", amt, None, rate)

NextCash ==
    \/ CashDeposit
    \/ CashWithdraw
    \/ Delete

SpecCash == Init /\ [][NextCash]_vars

MaxAverageTx == 4
MaxAverageInserts == 4
AverageDeposits == {10000000}                     \* 1000 USD
AveragePrices == {1500000, 1800000, 2000000}      \* 150, 180, 200 USD
AverageOrders ==
    {[quantity |-> 10000, amount |-> 0],          \* 1.0000
     [quantity |-> 20000, amount |-> 0]}          \* 2.0000

AverageDeposit ==
    /\ Room(MaxAverageTx, MaxAverageInserts)
    /\ UNCHANGED <<sessions, fx_cache, clock, portfolios>>
    /\ \E amt \in AverageDeposits, rate \in UsdTryRates :
        portfolio_deposit("USD", amt, None, rate)

AverageBuy ==
    /\ Room(MaxAverageTx, MaxAverageInserts)
    /\ UNCHANGED <<sessions, fx_cache, clock, portfolios>>
    /\ \E order \in AverageOrders, price \in AveragePrices, rate \in UsdTryRates :
        portfolio_buy("AAPL", order, price, None, rate)

AverageSell ==
    /\ Room(MaxAverageTx, MaxAverageInserts)
    /\ UNCHANGED <<sessions, fx_cache, clock, portfolios>>
    /\ \E order \in AverageOrders, price \in AveragePrices, rate \in UsdTryRates :
        portfolio_sell("AAPL", order, price, None, rate)

NextAverage ==
    \/ AverageDeposit
    \/ AverageBuy
    \/ AverageSell

SpecAverage == Init /\ [][NextAverage]_vars

\* a buy or a sale of quantity of AAPL at price is carried out in this step
Trades(tx_type, quantity, price) ==
    /\ \E rate \in UsdTryRates :
         IF tx_type = "buy"
         THEN portfolio_buy("AAPL", [quantity |-> quantity, amount |-> 0],
                            price, None, rate)
         ELSE portfolio_sell("AAPL", [quantity |-> quantity, amount |-> 0],
                             price, None, rate)
    /\ last'.status = "ok"

\* the cached holding of AAPL is quantity at an average cost of avg
Holds(h, quantity, avg) ==
    /\ "AAPL" \in DOMAIN h
    /\ h["AAPL"].quantity = quantity
    /\ h["AAPL"].avg_cost_usd = RatInt(avg)

(***************************************************************************)
(* C12.  Weighted-average cost: a buy re-averages the holding              *)
(* (new avg = (old_avg*old_qty + price*qty)/(old_qty+qty), to 4 decimals), *)
(* a sale leaves the average unchanged and realizes                        *)
(* (sell_price - avg_cost) * sold_qty.  Buying 2 at 150 and 1 at 180 gives *)
(* quantity 3 at average 160; selling 2 at 200 then realizes 80 and leaves *)
(* quantity 1 at average 160.                                              *)
(***************************************************************************)
WeightedAverageCost ==
    [][/\ \A order \in AverageOrders, price \in AveragePrices :
            LET q == order.quantity
                held == "AAPL" \in DOMAIN holdings
                old == holdings["AAPL"]
            IN  /\ (held /\ Trades("buy", q, price))
                      => Holds(holdings', old.quantity + q,
                               Round4(RatDiv(
                                   RatAdd(RatMul(old.avg_cost_usd,
                                                 Rat(old.quantity, Scale)),
                                          RatMul(RatInt(price), Rat(q, Scale))),
                                   Rat(old.quantity + q, Scale))))
                /\ (~held /\ Trades("buy", q, price))
                      => Holds(holdings', q, price)
                /\ (held /\ Trades("sell", q, price))
                      => /\ last'.pnl
                              = Round4(RatMul(RatSub(RatInt(price),
                                                     old.avg_cost_usd),
                                              Rat(q, Scale)))
                         /\ \/ "AAPL" \notin DOMAIN holdings'
                            \/ Holds(holdings', old.quantity - q,
                                     old.avg_cost_usd[1])
       /\ (Holds(holdings, 20000, 1500000) /\ Trades("buy", 10000, 1800000))
             => Holds(holdings', 30000, 1600000)
       /\ (Holds(holdings, 30000, 1600000) /\ Trades("sell", 20000, 2000000))
             => /\ last'.pnl = 800000
                /\ Holds(holdings', 10000, 1600000)
                /\ ReplayAll(log').holdings
                       = [s \in {"AAPL"} |->
                             [qty |-> 10000,
                              total_cost_usd |-> RatInt(1600000)]]]_vars

\* 2 bought at 150, 1 at 180, 2 sold at 200: 1 left at 160, 80 realized
SoldTwoOfThree ==
    /\ Cardinality(log) = 4
    /\ Holds(holdings, 10000, 1600000)
    /\ last.op = "sell"
    /\ last.status = "ok"
    /\ last.pnl = 800000

(***************************************************************************)
(* C13.  Cash trajectory as stated: from cash_usd = 1000, buying 2 at 150  *)
(* leaves cash_usd = 700, and after then buying 1 at 180 and selling 2 at  *)
(* 200 the balance is cash_usd = 1100.                                     *)
(***************************************************************************)
CashEndsAtElevenHundred ==
    [][/\ (cash_usd = 10000000 /\ log # {} /\ "AAPL" \notin DOMAIN holdings
           /\ Trades("buy", 20000, 1500000))
             => cash_usd' = 7000000
       /\ (cash_usd = 5200000 /\ Holds(holdings, 30000, 1600000)
           /\ Trades("sell", 20000, 2000000))
             => cash_usd' = 11000000]_vars

(***************************************************************************)
(* C13, amended.  From cash_usd = 1000, buying 2 at 150 leaves             *)
(* cash_usd = 700; then buying 1 at 180 leaves cash_usd = 520; then        *)
(* selling 2 at 200 leaves cash_usd = 920.                                 *)
(***************************************************************************)
CashTrajectory ==
    [][/\ (cash_usd = 10000000 /\ log # {} /\ "AAPL" \notin DOMAIN holdings
           /\ Trades("buy", 20000, 1500000))
             => cash_usd' = 7000000
       /\ (cash_usd = 7000000 /\ Holds(holdings, 20000, 1500000)
           /\ Trades("buy", 10000, 1800000))
             => cash_usd' = 5200000
       /\ (cash_usd = 5200000 /\ Holds(holdings, 30000, 1600000)
           /\ Trades("sell", 20000, 2000000))
             => cash_usd' = 9200000]_vars

\* the scenario carried out: 1000 deposited, 300 and 180 paid, 400 received
CashAfterScenario ==
    /\ Cardinality(log) = 4
    /\ total_deposited_usd = 10000000
    /\ cash_usd = 9200000
    /\ \E t \in log : t.tx_type = "sell" /\ t.amount_usd = 4000000
    /\ \E t \in log : t.tx_type = "buy" /\ t.amount_usd = 3000000
    /\ \E t \in log : t.tx_type = "buy" /\ t.amount_usd = 1800000

(***************************************************************************)
(* Dated deposits of 1000 USD and dated buys and sells of one symbol at    *)
(* custom prices: a request may carry a date earlier than rows already     *)
(* stored.                                                                 *)
(***************************************************************************)
MaxReorderTx == 4
MaxReorderInserts == 4

ReorderDeposit ==
    /\ Room(MaxReorderTx, MaxReorderInserts)
    /\ UNCHANGED <<sessions, fx_cache, clock, portfolios>>
    /\ \E amt \in AverageDeposits, date \in Dates, rate \in UsdTryRates :
        portfolio_deposit("USD", amt, date, rate)

ReorderBuy ==
    /\ Room(MaxReorderTx, MaxReorderInserts)
    /\ UNCHANGED <<sessions, fx_cache, clock, portfolios>>
    /\ \E order \in AverageOrders, price \in AveragePrices, date \in Dates,
          rate \in UsdTryRates :
        portfolio_buy("AAPL", order, price, date, rate)

ReorderSell ==
    /\ Room(MaxReorderTx, MaxReorderInserts)
    /\ UNCHANGED <<sessions, fx_cache, clock, portfolios>>
    /\ \E order \in AverageOrders, price \in AveragePrices, date \in Dates,
          rate \in UsdTryRates :
        portfolio_sell("AAPL", order, price, date, rate)

NextReorder ==
    \/ ReorderDeposit
    \/ ReorderBuy
    \/ ReorderSell

SpecReorder == Init /\ [][NextReorder]_vars

(***************************************************************************)
(* C14.  The cached average cost is reconstructable from the log: every    *)
(* Holding row has the average cost (to 4 decimals) that the recompute     *)
(* derives as total_cost_usd / quantity from the symbol's buys and sells   *)
(* in canonical order, also after a buy or sell dated before sells that    *)
(* are already recorded.                                                   *)
(***************************************************************************)
CachedAverageEqualsReplay ==
    LET replayed == _recalculate_portfolio_balances(log).holdings
    IN  \A s \in DOMAIN holdings :
            /\ s \in DOMAIN replayed
            /\ Round4(replayed[s].avg_cost_usd)
                  = Round4(holdings[s].avg_cost_usd)

(***************************************************************************)
(* Requests that the service refuses among requests that it carries out:   *)
(* amounts beyond the balance, sales beyond the holding, an exchange at a  *)
(* rate or an amount of 0, an order without quantity and amount, a deposit *)
(* at interest whose end date is not after its start date.                 *)
(***************************************************************************)
MaxRefusalTx == 3
MaxRefusalInserts == 3
RefusalRates == {0} \cup UsdTryRates
RefusalExchangeTry == {0} \cup ExchangeTry
RefusalOrders == {[quantity |-> 0, amount |-> 0], [quantity |-> Scale, amount |-> 0]}
RefusalDays == {0} \cup InterestDays

RefusalDeposit ==
    /\ Room(MaxRefusalTx, MaxRefusalInserts)
    /\ UNCHANGED <<sessions, fx_cache, clock, portfolios>>
    /\ \E currency \in {"USD", "TRY"}, rate \in UsdTryRates :
        \E amt \in (IF currency = "USD" THEN UsdDeposits ELSE TryDeposits) :
            portfolio_deposit(currency, amt, None, rate)

RefusalWithdraw ==
    /\ Room(MaxRefusalTx, MaxRefusalInserts)
    /\ UNCHANGED <<sessions, fx_cache, clock, portfolios>>
    /\ \E currency \in {"USD", "TRY"}, rate \in UsdTryRates :
        \E amt \in (IF currency = "USD" THEN UsdWithdrawals ELSE TryWithdrawals) :
            portfolio_withdraw(currency, amt, None, rate)

RefusalExchange ==
    /\ Room(MaxRefusalTx, MaxRefusalInserts)
    /\ UNCHANGED <<sessions, fx_cache, clock, portfolios>>
    /\ \E amount_try \in RefusalExchangeTry, rate \in RefusalRates,
          direction \in {"buy_usd", "sell_usd"} :
        portfolio_exchange(amount_try, rate, direction, None)

RefusalBuy ==
    /\ Room(MaxRefusalTx, MaxRefusalInserts)
    /\ UNCHANGED <<sessions, fx_cache, clock, portfolios>>
    /\ \E symbol \in Symbols, order \in RefusalOrders, rate \in UsdTryRates :
        \E custom_price \in {NoPrice} \cup CustomPrices(symbol) :
            portfolio_buy(symbol, order, custom_price, None, rate)

RefusalSell ==
    /\ Room(MaxRefusalTx, MaxRefusalInserts)
    /\ UNCHANGED <<sessions, fx_cache, clock, portfolios>>
    /\ \E symbol \in Symbols, order \in RefusalOrders, rate \in UsdTryRates :
        \E custom_price \in {NoPrice} \cup CustomPrices(symbol) :
            portfolio_sell(symbol, order, custom_price, None, rate)

RefusalInterestIn ==
    /\ Room(MaxRefusalTx, MaxRefusalInserts)
    /\ UNCHANGED <<sessions, fx_cache, clock, portfolios>>
    /\ \E currency \in {"USD", "TRY"}, annual_rate \in AnnualRates,
          start_date \in Dates, days \in RefusalDays, rate \in UsdTryRates :
        \E amount \in (IF currency = "USD" THEN InterestUsd ELSE InterestTry) :
            portfolio_interest_in(currency, amount, annual_rate, start_date,
                                  days, rate)

RefusalInterestOut ==
    /\ Room(MaxRefusalTx, MaxRefusalInserts)
    /\ UNCHANGED <<sessions, fx_cache, clock, portfolios>>
    /\ \E currency \in {"USD", "TRY"}, rate \in UsdTryRates :
        \E amount \in (IF currency = "USD" THEN InterestUsd ELSE InterestTry) :
            portfolio_interest_out(currency, amount, 0, rate)

NextRefusal ==
    \/ RefusalDeposit
    \/ RefusalWithdraw
    \/ RefusalExchange
    \/ RefusalBuy
    \/ RefusalSell
    \/ RefusalInterestIn
    \/ RefusalInterestOut

SpecRefusal == Init /\ [][NextRefusal]_vars

(***************************************************************************)
(* C15.  A refused operation leaves the ledger unchanged: when a withdraw, *)
(* exchange, buy, sell, interest_in or interest_out request is answered    *)
(* with an error, no row has been appended and no cash balance, interest   *)
(* balance, deposited total or holding has changed.                        *)
(***************************************************************************)
RefusalChangesNothing ==
    [][(/\ last'.status = "error"
        /\ last'.op \in {"withdraw", "exchange", "buy", "sell",
                         "interest_in", "interest_out"})
          => UNCHANGED <<log, balances>>]_vars

\* a deposit at interest refused for its dates on a portfolio that has cash
RefusedForDates ==
    /\ log # {}
    /\ cash_usd > 0
    /\ last.op = "interest_in"
    /\ last.status = "error"
    /\ last.error = "dates"

(***************************************************************************)
(* C17.  Replay cutoff: for the stored rows in canonical order, dated and  *)
(* undated mixed, and any cutoff, _replay_state_at_date gives the state    *)
(* that reflects every row whose effective date is at or before the        *)
(* cutoff and no row whose effective date is after it.                     *)
(***************************************************************************)
\* the rows of the canonical order whose effective date is at or before cutoff
UpToCutoff(txs, cutoff) ==
    SelectSeq(CanonicalOrder(txs), LAMBDA t : EffectiveDate(t) <= cutoff)

\* the cutoffs asked for: the dates of the requests and the times of the rows
ReplayCutoffs == Dates \cup StartTime..now

ReplayCutoffExact ==
    \A cutoff \in ReplayCutoffs :
        _replay_state_at_date(CanonicalOrder(log), cutoff)
           = _replay_state_at_date(UpToCutoff(log, cutoff), cutoff)

(***************************************************************************)
(* PnL calculation engine: _get_external_flows, _value_state,              *)
(* calculate_period_pnl.  Times are counted in days.  Percentages are in   *)
(* units of 0.01 percent.                                                  *)
(***************************************************************************)
\* flows whose date is not after start, or after end
FlowsFromStart(transactions, start, end) ==
    LET kept == SelectSeq(transactions, LAMBDA tx :
                    /\ ~(EffectiveDate(tx) < start \/ EffectiveDate(tx) > end)
                    /\ tx.tx_type \in {"deposit", "withdraw"})
    IN  [i \in 1..Len(kept) |->
            LET sign == IF kept[i].tx_type = "deposit" THEN 1 ELSE -1
            IN  [date |-> EffectiveDate(kept[i]), type |-> kept[i].tx_type,
                 amount_try |-> sign * kept[i].amount_try,
                 amount_usd |-> sign * kept[i].amount_usd]]

\* deposits and withdrawals dated in (start, end]: deposits positive,
\* withdrawals negative
_get_external_flows(transactions, start, end) ==
    LET kept == SelectSeq(transactions, LAMBDA tx :
                    /\ ~(EffectiveDate(tx) <= start \/ EffectiveDate(tx) > end)
                    /\ tx.tx_type \in {"deposit", "withdraw"})
    IN  [i \in 1..Len(kept) |->
            IF kept[i].tx_type = "deposit"
            THEN [date |-> EffectiveDate(kept[i]), type |-> "deposit",
                  amount_try |-> kept[i].amount_try,
                  amount_usd |-> kept[i].amount_usd]
            ELSE [date |-> EffectiveDate(kept[i]), type |-> "withdraw",
                  amount_try |-> 0 - kept[i].amount_try,
                  amount_usd |-> 0 - kept[i].amount_usd]]

\* a filter that selects nothing when no set is given
IncludedNamed(include, item) == item \in include.items

\* a filter that selects every item
IncludedAlways(include, item) == TRUE

\* the include filter of a request: None, or the set of the selected items
NoInclude == [none |-> TRUE, items |-> {}]
Include(items) == [none |-> FALSE, items |-> items]
Included(include, item) == include.none \/ item \in include.items

\* the value of the selected holdings, in USD (currency "USD") or in TRY
RECURSIVE HoldingsValue(_, _, _, _, _, _)
HoldingsValue(state, symbols, prices, rate, include, currency) ==
    IF symbols = {} THEN RatInt(0)
    ELSE LET symbol == CHOOSE x \in symbols : TRUE
             h == state.holdings[symbol]
             price == IF symbol \in DOMAIN prices THEN RatInt(prices[symbol])
                      ELSE IF h.qty > 0
                           THEN RatDiv(h.total_cost_usd, Rat(h.qty, Scale))
                           ELSE RatInt(0)
             own == RatMul(price, Rat(h.qty, Scale))
             val_usd == IF IsBist(symbol)
                        THEN IF rate > 0 THEN RatDiv(own, RatInt(rate))
                             ELSE RatInt(0)
                        ELSE own
             val_try == IF IsBist(symbol) THEN own
                        ELSE RatMul(own, RatInt(rate))
             rest == HoldingsValue(state, symbols \ {symbol}, prices, rate,
                                   include, currency)
         IN  IF ~Included(include, symbol) THEN rest
             ELSE RatAdd(IF currency = "USD" THEN val_usd ELSE val_try, rest)

_value_state(state, prices, rate, include) ==
    LET cash_try_ == IF Included(include, "cash_try") THEN state.cash_try ELSE 0
        cash_usd_ == IF Included(include, "cash_usd") THEN state.cash_usd ELSE 0
        interest_try == IF Included(include, "interest_try")
                        THEN state.interest_try ELSE 0
        interest_usd == IF Included(include, "interest_usd")
                        THEN state.interest_usd ELSE 0
        in_try == RatAdd(RatInt(cash_try_ + cash_usd_ * rate + interest_try
                                + interest_usd * rate),
                         HoldingsValue(state, DOMAIN state.holdings, prices,
                                       rate, include, "TRY"))
        in_usd == RatAdd(RatAdd(RatInt(cash_usd_ + interest_usd),
                                IF rate > 0
                                THEN Rat(cash_try_ + interest_try, rate)
                                ELSE RatInt(0)),
                         HoldingsValue(state, DOMAIN state.holdings, prices,
                                       rate, include, "USD"))
    IN  [total_try |-> Round2(in_try), total_usd |-> Round4(in_usd)]

\* sum(f[field] for f in flows if f[field] has the sign), as a magnitude
RECURSIVE FlowSum(_, _, _)
FlowSum(flows, field, sign) ==
    IF flows = <<>> THEN 0
    ELSE LET amount == IF field = "amount_try" THEN Head(flows).amount_try
                       ELSE Head(flows).amount_usd
         IN  (IF sign * amount > 0 THEN Abs(amount) ELSE 0)
                + FlowSum(Tail(flows), field, sign)

\* the flows of a period, each with the weight 1
RECURSIVE UnweightedFlow(_, _, _, _)
UnweightedFlow(flows, field, start_date, total_days) ==
    IF flows = <<>> THEN RatInt(0)
    ELSE LET amount == IF field = "amount_try" THEN Head(flows).amount_try
                       ELSE Head(flows).amount_usd
         IN  RatAdd(RatInt(amount),
                    UnweightedFlow(Tail(flows), field, start_date, total_days))

\* sum(f[field] * max(total_days - (f['date'] - start_date).days, 0) / total_days)
RECURSIVE WeightedFlow(_, _, _, _)
WeightedFlow(flows, field, start_date, total_days) ==
    IF flows = <<>> THEN RatInt(0)
    ELSE LET amount == IF field = "amount_try" THEN Head(flows).amount_try
                       ELSE Head(flows).amount_usd
             held == total_days - (Head(flows).date - start_date)
             weight == Rat(IF held > 0 THEN held ELSE 0, total_days)
         IN  RatAdd(RatMul(RatInt(amount), weight),
                    WeightedFlow(Tail(flows), field, start_date, total_days))

(***************************************************************************)
(* Inflation.  Dates are counted in days; a quarter is QuarterDays days     *)
(* long.  The CPI table holds a value for the quarters CpiQuarters, so a    *)
(* quarter has a quarterly inflation when the table holds it and the       *)
(* quarter before it.  The factor is a product of powers                    *)
(* (1 + quarterly_inflation[q]) ** exponent[q]; it is kept as the function  *)
(* from quarters to exponents, exact rationals, a product of two factors   *)
(* being the sum of their exponents.                                        *)
(***************************************************************************)
QuarterDays == 4
LastPublished == 2
CpiQuarters == -1 .. LastPublished
Quarters == 0 .. (LastPublished + 2)
ExpectedCpiKnown == TRUE

date_to_quarter(dt) == dt \div QuarterDays
quarter_start(q) == q * QuarterDays
quarter_end(q) == (q + 1) * QuarterDays

\* the exponent of quarter q with published CPI in the range
QuarterExponent(q, from_date, to_date) ==
    LET total_days == quarter_end(q) - quarter_start(q)
        days_in == IF q = date_to_quarter(from_date)
                   THEN quarter_end(q) - from_date
                   ELSE IF q = date_to_quarter(to_date)
                        THEN to_date - quarter_start(q)
                        ELSE total_days
    IN  IF total_days > 0 THEN Rat(days_in, total_days) ELSE RatInt(1)

\* the exponent of the current quarter, not published yet, at the expected CPI
ExpectedExponent(q, to_date) ==
    LET total_days == quarter_end(q) - quarter_start(q)
        days_in == to_date - quarter_start(q)
    IN  IF total_days > 0 THEN Rat(days_in, total_days) ELSE RatInt(1)

\* factor /= (1 + quarterly_inflation) ** exponent, quarter by quarter
_get_inflation_factor(from_date, to_date) ==
    [q \in Quarters |->
        IF CpiQuarters = {} THEN RatInt(0)
        ELSE IF q < date_to_quarter(from_date) \/ q > date_to_quarter(to_date)
        THEN RatInt(0)
        ELSE IF q \in CpiQuarters /\ (q - 1) \in CpiQuarters
        THEN RatSub(RatInt(0), QuarterExponent(q, from_date, to_date))
        ELSE IF q = date_to_quarter(to_date) /\ q \notin CpiQuarters
                /\ ExpectedCpiKnown
        THEN RatSub(RatInt(0), ExpectedExponent(q, to_date))
        ELSE RatInt(0)]

\* 1.0 / factor: the same powers with the opposite exponents.  The code
\* rounds the quotient to 6 decimals, and returns 1.0 for a factor that is
\* not in (0, 2], which a CPI table with rising values never gives.
_inflation_multiplier(from_date, to_date) ==
    LET factor == _get_inflation_factor(from_date, to_date)
    IN  [q \in Quarters |-> RatSub(RatInt(0), factor[q])]

\* the product of two multipliers
MultiplierProduct(a, b) == [q \in Quarters |-> RatAdd(a[q], b[q])]

\* the multiplier 1.0
NoInflation == [q \in Quarters |-> RatInt(0)]

\* the multiplier over a number of days of a CPI table that rises by 1 percent
\* a day, round(1.01 ** days, 6) in units of 1e-6
Micro == 1000000
DailyMultipliers == <<1010000, 1020100, 1030301, 1040604, 1051010, 1061520, 1072135, 1082857, 1093685, 1104622, 1115668, 1126825, 1138093, 1149474, 1160969, 1172579, 1184304, 1196147, 1208109, 1220190>>

\* the days that the exponents of a multiplier add up to
RECURSIVE MultiplierDays(_, _)
MultiplierDays(multiplier, quarters) ==
    IF quarters = {} THEN 0
    ELSE LET q == CHOOSE x \in quarters : TRUE
             days == RatMul(multiplier[q],
                            RatInt(quarter_end(q) - quarter_start(q)))
         IN  days[1] \div days[2]
                + MultiplierDays(multiplier, quarters \ {q})

\* the value of a multiplier, a rational
MultiplierValue(multiplier) ==
    LET days == MultiplierDays(multiplier, Quarters)
    IN  IF days = 0 THEN RatInt(1) ELSE Rat(DailyMultipliers[days], Micro)

\* the adjusted amounts of the deposits only
RECURSIVE AdjustedInflows(_, _)
AdjustedInflows(flows, end_date) ==
    IF flows = <<>> THEN RatInt(0)
    ELSE LET f == Head(flows)
             fl_inf == MultiplierValue(_inflation_multiplier(f.date, end_date))
             adj_amt == IF f.amount_usd > 0
                        THEN RatMul(RatInt(f.amount_usd), fl_inf)
                        ELSE RatInt(0)
         IN  RatAdd(adj_amt, AdjustedInflows(Tail(flows), end_date))

\* for f in flows: total_adj_cost += f['amount_usd'] * fl_inf
RECURSIVE AdjustedFlows(_, _)
AdjustedFlows(flows, end_date) ==
    IF flows = <<>> THEN RatInt(0)
    ELSE LET f == Head(flows)
             fl_inf == MultiplierValue(_inflation_multiplier(f.date, end_date))
             adj_amt == RatMul(RatInt(f.amount_usd), fl_inf)
         IN  RatAdd(adj_amt, AdjustedFlows(Tail(flows), end_date))

\* abs(base_try) > 0.01 and abs(base_usd) > 0.0001
MinBaseTry == 100
MinBaseUsd == 1

\* a percentage that is left as a fraction
PnlFraction(pnl, base, threshold) ==
    IF base[1] > threshold * base[2] \/ 0 - base[1] > threshold * base[2]
    THEN LET pct == RatMul(RatDiv(RatInt(pnl), base), RatInt(100))
         IN  RoundDiv(pct[1], pct[2])
    ELSE 0

\* round((pnl / base * 100) if abs(base) > threshold else 0, 2)
PnlPct(pnl, base, threshold) ==
    IF base[1] > threshold * base[2] \/ 0 - base[1] > threshold * base[2]
    THEN LET pct == RatMul(RatDiv(RatInt(pnl), base), RatInt(100 * 100))
         IN  RoundDiv(pct[1], pct[2])
    ELSE 0

\* start_val[total] if abs(start_val[total]) > threshold else (end_val[total] or 1)
SelectiveDenominator(start_total, end_total, threshold) ==
    IF Abs(start_total) > threshold THEN start_total
    ELSE IF end_total # 0 THEN end_total ELSE Scale

\* calculate_period_pnl for a custom period; prices and rates are those that
\* _fetch_prices_for_state and get_historical_usdtry find for the two dates
calculate_period_pnl(all_txs, start_date_str, end_date, start_prices, end_prices, start_rate, end_rate, include) ==
    LET first_tx_date == EffectiveDate(all_txs[1])
        start_date == IF start_date_str < first_tx_date THEN first_tx_date
                      ELSE start_date_str
        total_days == IF end_date - start_date > 1 THEN end_date - start_date
                      ELSE 1
        start_val == _value_state(_replay_state_at_date(all_txs, start_date),
                                  start_prices, start_rate, include)
        end_val == _value_state(_replay_state_at_date(all_txs, end_date),
                                end_prices, end_rate, include)
        is_selective == ~include.none
        flows == IF is_selective THEN <<>>
                 ELSE _get_external_flows(all_txs, start_date, end_date)
        inflow_try == FlowSum(flows, "amount_try", 1)
        outflow_try == FlowSum(flows, "amount_try", -1)
        inflow_usd == FlowSum(flows, "amount_usd", 1)
        outflow_usd == FlowSum(flows, "amount_usd", -1)
        pnl_try == end_val.total_try - start_val.total_try
                      - (inflow_try - outflow_try)
        pnl_usd == end_val.total_usd - start_val.total_usd
                      - (inflow_usd - outflow_usd)
        base_try == IF is_selective
                    THEN RatInt(SelectiveDenominator(start_val.total_try,
                                    end_val.total_try, MinBaseTry))
                    ELSE RatAdd(RatInt(start_val.total_try),
                                WeightedFlow(flows, "amount_try", start_date,
                                             total_days))
        base_usd == IF is_selective
                    THEN RatInt(SelectiveDenominator(start_val.total_usd,
                                    end_val.total_usd, MinBaseUsd))
                    ELSE RatAdd(RatInt(start_val.total_usd),
                                WeightedFlow(flows, "amount_usd", start_date,
                                             total_days))
    IN  IF all_txs = <<>> THEN [error |-> TRUE]
        ELSE [error |-> FALSE,
              selective |-> is_selective,
              try_pnl |-> [start_value |-> start_val.total_try,
                           end_value |-> end_val.total_try,
                           inflows |-> inflow_try,
                           outflows |-> outflow_try,
                           net_flow |-> inflow_try - outflow_try,
                           pnl |-> pnl_try,
                           pnl_pct |-> PnlPct(pnl_try, base_try, MinBaseTry)],
              usd_pnl |-> [start_value |-> start_val.total_usd,
                           end_value |-> end_val.total_usd,
                           inflows |-> inflow_usd,
                           outflows |-> outflow_usd,
                           net_flow |-> inflow_usd - outflow_usd,
                           pnl |-> pnl_usd,
                           pnl_pct |-> PnlPct(pnl_usd, base_usd, MinBaseUsd)],
              \* inflation_pnl: None, or the result that
              \* inflation_pnl_result gives, with one entry of details for
              \* the start value and one per flow
              inflation_pnl |-> IF is_selective THEN <<>>
                                ELSE <<[current_value |-> end_val.total_usd,
                                        details |-> 1 + Len(flows)]>>,
              flows |-> flows]

\* section 8 of calculate_period_pnl in full-portfolio mode: the
\* inflation-adjusted result
inflation_pnl_result(all_txs, start_date_str, end_date, start_prices, end_prices, start_rate, end_rate) ==
    LET first_tx_date == EffectiveDate(all_txs[1])
        start_date == IF start_date_str < first_tx_date THEN first_tx_date
                      ELSE start_date_str
        start_val == _value_state(_replay_state_at_date(all_txs, start_date),
                                  start_prices, start_rate, NoInclude)
        end_val == _value_state(_replay_state_at_date(all_txs, end_date),
                                end_prices, end_rate, NoInclude)
        flows == _get_external_flows(all_txs, start_date, end_date)
        start_inf == MultiplierValue(_inflation_multiplier(start_date, end_date))
        adj_start == RatMul(RatInt(start_val.total_usd), start_inf)
        required_value == Round4(RatAdd(adj_start,
                                        AdjustedFlows(flows, end_date)))
        current_value == end_val.total_usd
        real_pnl_usd == current_value - required_value
    IN  [current_value |-> current_value,
         required_value |-> required_value,
         real_pnl_usd |-> real_pnl_usd,
         real_pnl_pct |-> PnlPct(real_pnl_usd, RatInt(required_value),
                                 MinBaseUsd)]

(***************************************************************************)
(* A portfolio for the PnL queries: deposits in both currencies and        *)
(* withdrawals of USD, dated or not, an exchange, a buy at the live price  *)
(* and a deposit at interest.                                              *)
(***************************************************************************)
MaxPnlTx == 3
MaxPnlInserts == 3
PnlWithdrawals == {50000}                \* 5 USD

PnlDeposit ==
    /\ Room(MaxPnlTx, MaxPnlInserts)
    /\ UNCHANGED <<sessions, fx_cache, clock, portfolios>>
    /\ \E currency \in {"USD", "TRY"}, date \in DateInputs, rate \in UsdTryRates :
        \E amt \in (IF currency = "USD" THEN UsdDeposits ELSE TryDeposits) :
            portfolio_deposit(currency, amt, date, rate)

PnlWithdraw ==
    /\ Room(MaxPnlTx, MaxPnlInserts)
    /\ UNCHANGED <<sessions, fx_cache, clock, portfolios>>
    /\ \E amt \in PnlWithdrawals, date \in DateInputs, rate \in UsdTryRates :
        portfolio_withdraw("USD", amt, date, rate)

PnlExchange ==
    /\ Room(MaxPnlTx, MaxPnlInserts)
    /\ UNCHANGED <<sessions, fx_cache, clock, portfolios>>
    /\ \E amount_try \in ExchangeTry, rate \in UsdTryRates :
        portfolio_exchange(amount_try, rate, "sell_usd", None)

PnlBuy ==
    /\ Room(MaxPnlTx, MaxPnlInserts)
    /\ UNCHANGED <<sessions, fx_cache, clock, portfolios>>
    /\ \E rate \in UsdTryRates :
        portfolio_buy("AAPL", [quantity |-> Scale, amount |-> 0], NoPrice,
                      None, rate)

PnlInterestIn ==
    /\ Room(MaxPnlTx, MaxPnlInserts)
    /\ UNCHANGED <<sessions, fx_cache, clock, portfolios>>
    /\ \E amount \in InterestUsd, annual_rate \in AnnualRates,
          start_date \in Dates, days \in InterestDays, rate \in UsdTryRates :
        portfolio_interest_in("USD", amount, annual_rate, start_date, days, rate)

NextPnl ==
    \/ PnlDeposit
    \/ PnlWithdraw
    \/ PnlExchange
    \/ PnlBuy
    \/ PnlInterestIn

SpecPnl == Init /\ [][NextPnl]_vars

\* the start and end dates asked for
PnlDates == Dates \cup {StartTime, now}
\* what get_historical_price and get_historical_usdtry find for a date
StartPrices == [s \in Symbols |-> LivePrice(s)]
PnlPrices ==
    {[s \in Symbols |-> IF IsBist(s) THEN LivePrice(s) ELSE p] :
        p \in {30000, 60000}}
\* the periods asked for
Periods == {p \in PnlDates \X PnlDates : p[1] <= p[2]}
PnlRates == UsdTryRates \cup {50}
\* the symbols filters of a request
PnlIncludes == {{"cash_usd"}, {"cash_try", "AAPL"}}

\* the rows that are a flow of the period (start, end]
FlowRows(txs, start, end) ==
    {t \in txs : /\ t.tx_type \in {"deposit", "withdraw"}
                 /\ start < EffectiveDate(t)
                 /\ EffectiveDate(t) <= end}

(***************************************************************************)
(* C18.  External flows: _get_external_flows(transactions, start, end)     *)
(* returns exactly the deposits and withdrawals whose effective date d has *)
(* start < d <= end, deposits with positive and withdrawals with negative  *)
(* amounts in TRY and in USD, and no exchange, buy, sell or interest row.  *)
(***************************************************************************)
ExternalFlowsExact ==
    \A start \in PnlDates, end \in PnlDates :
        LET flows == _get_external_flows(CanonicalOrder(log), start, end)
            due == FlowRows(log, start, end)
        IN  /\ Len(flows) = Cardinality(due)
            /\ \A t \in due : \E i \in 1..Len(flows) :
                  /\ flows[i].date = EffectiveDate(t)
                  /\ flows[i].type = t.tx_type
                  /\ Abs(flows[i].amount_try) = t.amount_try
                  /\ Abs(flows[i].amount_usd) = t.amount_usd
            /\ \A i \in 1..Len(flows) :
                  /\ flows[i].type \in {"deposit", "withdraw"}
                  /\ flows[i].type = "deposit"
                        => (flows[i].amount_try > 0 /\ flows[i].amount_usd > 0)
                  /\ flows[i].type = "withdraw"
                        => (flows[i].amount_try < 0 /\ flows[i].amount_usd < 0)

\* a period that holds a withdrawal, starts on the date of a deposit and
\* holds a row that is no flow
FlowsOfAPeriod ==
    \E start \in PnlDates, end \in PnlDates :
        /\ \E t \in FlowRows(log, start, end) : t.tx_type = "withdraw"
        /\ \E t \in log : t.tx_type = "deposit" /\ EffectiveDate(t) = start
        /\ \E t \in log : /\ t.tx_type \notin {"deposit", "withdraw"}
                          /\ start < EffectiveDate(t)
                          /\ EffectiveDate(t) <= end

\* the start date that calculate_period_pnl works with
ClampedStart(txs, start) ==
    LET first_tx_date == EffectiveDate(CanonicalOrder(txs)[1])
    IN  IF start < first_tx_date THEN first_tx_date ELSE start

\* (end - start) / start * 100, to 2 decimals
ReturnPct(start_value, end_value) ==
    LET pct == RatMul(Rat(end_value - start_value, start_value),
                      RatInt(100 * 100))
    IN  RoundDiv(pct[1], pct[2])

(***************************************************************************)
(* C19.  Modified Dietz without flows: in full-portfolio mode, when no     *)
(* deposit or withdrawal has an effective date in (start, end],            *)
(* calculate_period_pnl reports pnl = EndValue - StartValue and            *)
(* Return% = (EndValue - StartValue) / StartValue (as a percentage to the  *)
(* 2 decimals of the response, for a StartValue above the 0.01 TRY and     *)
(* 0.0001 USD below which no percentage is computed), for the TRY and for  *)
(* the USD values independently.                                           *)
(***************************************************************************)
NoFlowReturn ==
    \A period \in Periods, end_prices \in PnlPrices,
       start_rate \in UsdTryRates, end_rate \in PnlRates :
        LET start == period[1]
            end == period[2]
            r == calculate_period_pnl(CanonicalOrder(log), start, end,
                     StartPrices, end_prices, start_rate, end_rate, NoInclude)
        IN  (log # {} /\ FlowRows(log, ClampedStart(log, start), end) = {})
            => /\ r.try_pnl.pnl = r.try_pnl.end_value - r.try_pnl.start_value
               /\ r.usd_pnl.pnl = r.usd_pnl.end_value - r.usd_pnl.start_value
               /\ Abs(r.try_pnl.start_value) > MinBaseTry
                    => r.try_pnl.pnl_pct
                          = ReturnPct(r.try_pnl.start_value, r.try_pnl.end_value)
               /\ Abs(r.usd_pnl.start_value) > MinBaseUsd
                    => r.usd_pnl.pnl_pct
                          = ReturnPct(r.usd_pnl.start_value, r.usd_pnl.end_value)

\* a period without flows over which the value of the holding changes
ReturnWithoutFlows ==
    \E period \in Periods, end_prices \in PnlPrices :
        /\ \E t \in log : t.tx_type = "deposit"
        /\ \E t \in log : t.tx_type = "buy"
        /\ FlowRows(log, ClampedStart(log, period[1]), period[2]) = {}
        /\ LET r == calculate_period_pnl(CanonicalOrder(log), period[1],
                        period[2], StartPrices, end_prices, 40, 50, NoInclude)
           IN  /\ r.usd_pnl.start_value > MinBaseUsd
               /\ r.usd_pnl.pnl > 0
               /\ r.usd_pnl.pnl_pct > 0
               /\ r.try_pnl.pnl_pct # r.usd_pnl.pnl_pct

(***************************************************************************)
(* C20.  Selective mode: with a symbols filter, calculate_period_pnl       *)
(* reports pnl = EndValue - StartValue of the selected components without  *)
(* flow adjustment (inflows, outflows and net flow 0, no flows listed) and *)
(* no inflation-adjusted result, whatever deposits or withdrawals fall     *)
(* into the period.                                                        *)
(***************************************************************************)
SelectiveIgnoresFlows ==
    \A period \in Periods, end_prices \in PnlPrices,
       start_rate \in UsdTryRates, end_rate \in UsdTryRates,
       items \in PnlIncludes :
        LET start == period[1]
            end == period[2]
            txs == CanonicalOrder(log)
            r == calculate_period_pnl(txs, start, end, StartPrices,
                     end_prices, start_rate, end_rate, Include(items))
            state_end == _replay_state_at_date(txs, end)
            state_start == _replay_state_at_date(txs, ClampedStart(log, start))
        IN  log # {}
            => /\ r.selective
               /\ r.try_pnl.pnl = r.try_pnl.end_value - r.try_pnl.start_value
               /\ r.usd_pnl.pnl = r.usd_pnl.end_value - r.usd_pnl.start_value
               /\ items = {"cash_usd"}
                    => /\ r.usd_pnl.end_value = state_end.cash_usd
                       /\ r.usd_pnl.start_value = state_start.cash_usd
                       /\ r.try_pnl.end_value = state_end.cash_usd * end_rate
               /\ (items = {"cash_try", "AAPL"}
                   /\ "AAPL" \notin DOMAIN state_end.holdings)
                    => r.try_pnl.end_value = state_end.cash_try
               /\ r.try_pnl.inflows = 0 /\ r.usd_pnl.inflows = 0
               /\ r.try_pnl.outflows = 0 /\ r.usd_pnl.outflows = 0
               /\ r.try_pnl.net_flow = 0 /\ r.usd_pnl.net_flow = 0
               /\ r.flows = <<>>
               /\ r.inflation_pnl = <<>>

\* a filter on cash_usd over a period that holds a deposit of USD, in a
\* portfolio that has TRY as well
SelectiveOverADeposit ==
    \E period \in Periods, prices \in PnlPrices :
        /\ \E t \in FlowRows(log, ClampedStart(log, period[1]), period[2]) :
              t.tx_type = "deposit" /\ "$" \in t.note
        /\ cash_try > 0
        /\ LET r == calculate_period_pnl(CanonicalOrder(log), period[1],
                        period[2], StartPrices, prices, 40, 40,
                        Include({"cash_usd"}))
           IN  r.selective /\ r.usd_pnl.pnl > 0 /\ r.flows = <<>>

(***************************************************************************)
(* A portfolio for the valuation: undated deposits in both currencies,     *)
(* buys of both symbols at the live price and a deposit of USD at          *)
(* interest.                                                               *)
(***************************************************************************)
MaxValueTx == 4
MaxValueInserts == 4

ValueDeposit ==
    /\ Room(MaxValueTx, MaxValueInserts)
    /\ UNCHANGED <<sessions, fx_cache, clock, portfolios>>
    /\ \E currency \in {"USD", "TRY"}, rate \in UsdTryRates :
        \E amt \in (IF currency = "USD" THEN UsdDeposits ELSE TryDeposits) :
            portfolio_deposit(currency, amt, None, rate)

ValueBuy ==
    /\ Room(MaxValueTx, MaxValueInserts)
    /\ UNCHANGED <<sessions, fx_cache, clock, portfolios>>
    /\ \E symbol \in Symbols, order \in Orders, rate \in UsdTryRates :
        portfolio_buy(symbol, order, NoPrice, None, rate)

ValueInterestIn ==
    /\ Room(MaxValueTx, MaxValueInserts)
    /\ UNCHANGED <<sessions, fx_cache, clock, portfolios>>
    /\ \E amount \in InterestUsd, annual_rate \in AnnualRates,
          start_date \in Dates, days \in InterestDays, rate \in UsdTryRates :
        portfolio_interest_in("USD", amount, annual_rate, start_date, days, rate)

NextValue ==
    \/ ValueDeposit
    \/ ValueBuy
    \/ ValueInterestIn

SpecValue == Init /\ [][NextValue]_vars

\* the items an include set can name
Components == {"cash_try", "cash_usd", "interest_try", "interest_usd"} \cup Symbols
\* the rates of a valuation
ValueRates == {3} \cup UsdTryRates

MissingPrices == <<>>

(***************************************************************************)
(* C22.  Missing-price fallback: a holding whose symbol has no entry in     *)
(* prices is valued at its own cost basis: alone in the include set it     *)
(* contributes its total_cost_usd to total_usd and that amount times the   *)
(* rate to total_try, for a BIST (.IS) symbol as for any other symbol.      *)
(***************************************************************************)
MissingPriceValuedAtCost ==
    LET state == ReplayAll(log) IN
    \A symbol \in DOMAIN state.holdings, rate \in UsdTryRates :
        LET h == state.holdings[symbol]
            value == _value_state(state, MissingPrices, rate,
                                  Include({symbol}))
        IN  h.qty > 0 =>
                /\ value.total_usd = Round4(h.total_cost_usd)
                /\ value.total_try
                       = Round2(RatMul(h.total_cost_usd, RatInt(rate)))

\* the dates up to now that fall in quarters with published CPI
PublishedDates == {d \in 0 .. now : date_to_quarter(d) \in CpiQuarters}

\* the days of the range [from_date, to_date] that fall in quarter q
DaysInQuarter(q, from_date, to_date) ==
    LET first == IF from_date > quarter_start(q) THEN from_date
                 ELSE quarter_start(q)
        end == IF to_date < quarter_end(q) THEN to_date ELSE quarter_end(q)
    IN  IF end > first THEN end - first ELSE 0

(***************************************************************************)
(* C23.  Inflation factors compose: for dates t0 <= t1 <= t2 in quarters    *)
(* with published CPI, _inflation_multiplier(t0, t2) is the product of     *)
(* _inflation_multiplier(t0, t1) and _inflation_multiplier(t1, t2).         *)
(***************************************************************************)
MultipliersCompose ==
    \A t0 \in PublishedDates, t1 \in PublishedDates, t2 \in PublishedDates :
        (t0 <= t1 /\ t1 <= t2) =>
            _inflation_multiplier(t0, t2)
                = MultiplierProduct(_inflation_multiplier(t0, t1),
                                    _inflation_multiplier(t1, t2))

(***************************************************************************)
(* C24.  Boundary-quarter exponent: for from_date <= to_date in quarters    *)
(* with published CPI, the exponent of every quarter is the number of days *)
(* of [from_date, to_date] in the quarter over the days of the quarter; in *)
(* one quarter that is (to_date - from_date) days over the days of the     *)
(* quarter, and from_date = to_date gives the factor 1.                     *)
(***************************************************************************)
ExponentIsDaysInRange ==
    \A from_date \in PublishedDates, to_date \in PublishedDates :
        from_date <= to_date =>
            /\ \A q \in Quarters :
                   _inflation_multiplier(from_date, to_date)[q]
                       = Rat(DaysInQuarter(q, from_date, to_date),
                             quarter_end(q) - quarter_start(q))
            /\ from_date = to_date =>
                   _get_inflation_factor(from_date, to_date) = NoInflation

\* the adjusted amounts of a set of rows, withdrawals counting negative
RECURSIVE RequiredOf(_, _)
RequiredOf(rows, end) ==
    IF rows = {} THEN RatInt(0)
    ELSE LET t == CHOOSE x \in rows : TRUE
             amount == IF t.tx_type = "deposit" THEN t.amount_usd
                       ELSE 0 - t.amount_usd
             required == RatMul(RatInt(amount),
                            MultiplierValue(
                                _inflation_multiplier(EffectiveDate(t), end)))
         IN  RatAdd(required, RequiredOf(rows \ {t}, end))

\* RequiredValue of the start valuation and a set of rows
RequiredValue(start_value, start, rows, end) ==
    Round4(RatAdd(RatMul(RatInt(start_value),
                         MultiplierValue(_inflation_multiplier(start, end))),
                  RequiredOf(rows, end)))

\* the result with RequiredValue taken over a set of rows
RealReturn(start_value, start, rows, end, end_value) ==
    LET required == RequiredValue(start_value, start, rows, end)
    IN  [current_value |-> end_value,
         required_value |-> required,
         real_pnl_usd |-> end_value - required,
         real_pnl_pct |-> IF Abs(required) > MinBaseUsd
                          THEN ReturnPct(required, end_value) ELSE 0]

(***************************************************************************)
(* C25 as stated.  Real return: RequiredValue is the sum of amount x       *)
(* inflation_multiplier(flow_date, end_date) over the start valuation and  *)
(* every external inflow of the period, and only inflows; RealPnL is the   *)
(* end total_usd minus RequiredValue and RealReturn% is RealPnL /          *)
(* RequiredValue.                                                          *)
(***************************************************************************)
RequiredOfInflowsOnly ==
    \A period \in Periods, end_prices \in PnlPrices, rate \in UsdTryRates :
        LET txs == CanonicalOrder(log)
            start == ClampedStart(log, period[1])
            end == period[2]
            start_val == _value_state(_replay_state_at_date(txs, start),
                                      StartPrices, rate, NoInclude)
            end_val == _value_state(_replay_state_at_date(txs, end),
                                    end_prices, rate, NoInclude)
            inflows == {t \in FlowRows(log, start, end) :
                           t.tx_type = "deposit"}
        IN  log # {}
            => inflation_pnl_result(txs, period[1], end, StartPrices,
                                    end_prices, rate, rate)
                 = RealReturn(start_val.total_usd, start, inflows, end,
                              end_val.total_usd)

(***************************************************************************)
(* C25.  Real return: in full-portfolio mode RequiredValue is the sum of   *)
(* amount x inflation_multiplier(flow_date, end_date), to 4 decimals, over *)
(* the start valuation and every external flow of the period, a deposit    *)
(* with its amount and a withdrawal with its amount negated; RealPnL is    *)
(* the end total_usd minus RequiredValue and RealReturn% is RealPnL /      *)
(* RequiredValue as a percentage to 2 decimals (0 for a RequiredValue      *)
(* within 0.0001 of 0).                                                    *)
(***************************************************************************)
RequiredOfAllFlows ==
    \A period \in Periods, end_prices \in PnlPrices, rate \in UsdTryRates :
        LET txs == CanonicalOrder(log)
            start == ClampedStart(log, period[1])
            end == period[2]
            start_val == _value_state(_replay_state_at_date(txs, start),
                                      StartPrices, rate, NoInclude)
            end_val == _value_state(_replay_state_at_date(txs, end),
                                    end_prices, rate, NoInclude)
        IN  log # {}
            => inflation_pnl_result(txs, period[1], end, StartPrices,
                                    end_prices, rate, rate)
                 = RealReturn(start_val.total_usd, start,
                              FlowRows(log, start, end), end,
                              end_val.total_usd)

\* a period with a start value, a deposit and a withdrawal on different dates
\* and inflation over the period
RealReturnWithFlows ==
    \E period \in Periods :
        /\ log # {}
        /\ \E t \in FlowRows(log, ClampedStart(log, period[1]), period[2]) :
              t.tx_type = "withdraw"
        /\ LET real == inflation_pnl_result(CanonicalOrder(log), period[1],
                           period[2], StartPrices, StartPrices, 40, 40)
           IN  /\ real.required_value > 0
               /\ real.real_pnl_usd < 0
               /\ real.real_pnl_pct < 0

\* the value of a factor, a rational: 1 over the multiplier
FactorValue(factor) ==
    LET inverse == MultiplierValue([q \in Quarters |->
                                       RatSub(RatInt(0), factor[q])])
    IN  Rat(inverse[2], inverse[1])

\* sum of market_value over the holdings rows
RECURSIVE MarketValue(_, _, _)
MarketValue(symbols, prices, rate) ==
    IF symbols = {} THEN 0
    ELSE LET symbol == CHOOSE x \in symbols : TRUE
             h == holdings[symbol]
             current_price == IF IsBist(symbol)
                              THEN Round4(Rat(prices[symbol], rate))
                              ELSE prices[symbol]
             market_value == Round4(RatMul(RatInt(current_price),
                                           Rat(h.quantity, Scale)))
         IN  market_value + MarketValue(symbols \ {symbol}, prices, rate)

\* get_portfolio_summary: the totals and the P&L figures of the response
get_portfolio_summary(prices, rate) ==
    LET total_value_usd ==
            RatAdd(RatInt(cash_usd + interest_balance_usd
                          + MarketValue(DOMAIN holdings, prices, rate)),
                   IF rate > 0 THEN Rat(cash_try + interest_balance_try, rate)
                   ELSE RatInt(0))
        nominal_pnl_usd == Round4(RatSub(total_value_usd,
                                         RatInt(total_deposited_usd)))
        deposits == {t \in log : t.tx_type = "deposit"}
        first_tx == CHOOSE t \in deposits :
                        \A u \in deposits : t.created_at <= u.created_at
        inflation_factor == IF deposits = {} THEN NoInflation
                            ELSE _get_inflation_factor(first_tx.created_at, now)
        real_pnl_usd == Round4(RatSub(total_value_usd,
                                      RatDiv(RatInt(total_deposited_usd),
                                             FactorValue(inflation_factor))))
        inflation_adjusted_pnl_usd ==
            IF deposits = {} THEN nominal_pnl_usd
            ELSE Round4(RatSub(total_value_usd, RatInt(total_deposited_usd)))
    IN  [total_value_usd |-> Round4(total_value_usd),
         total_deposited_usd |-> total_deposited_usd,
         nominal_pnl_usd |-> nominal_pnl_usd,
         inflation_factor |-> inflation_factor,
         inflation_adjusted_pnl_usd |-> inflation_adjusted_pnl_usd]

(***************************************************************************)
(* C26.  Summary inflation-adjusted P&L: get_portfolio_summary reports     *)
(* inflation_adjusted_pnl_usd = total_value_usd - (total_deposited_usd /   *)
(* inflation_factor), which differs from nominal_pnl_usd whenever the      *)
(* inflation factor is not 1 and something was deposited.                  *)
(***************************************************************************)
SummaryAdjustsForInflation ==
    \A prices \in PnlPrices, rate \in UsdTryRates :
        LET summary == get_portfolio_summary(prices, rate)
            real == Round4(RatSub(RatInt(summary.total_value_usd),
                               RatDiv(RatInt(summary.total_deposited_usd),
                                      FactorValue(summary.inflation_factor))))
        IN  (\E t \in log : t.tx_type = "deposit")
            => /\ summary.inflation_adjusted_pnl_usd = real
               /\ (summary.inflation_factor # NoInflation
                   /\ summary.total_deposited_usd > 0)
                    => summary.inflation_adjusted_pnl_usd
                          # summary.nominal_pnl_usd

(***************************************************************************)
(* Portfolios.  The variables hold the first portfolio of the user; a      *)
(* request may name no portfolio, this one, or one that the user does not  *)
(* own.                                                                    *)
(***************************************************************************)
MaxPortfolioTx == 3
MaxPortfolioInserts == 3
OwnedPortfolios == {1}
PortfolioIds == {None} \cup 1..2

\* the portfolio that a request works on
get_or_create_portfolio(portfolio_id) ==
    IF portfolio_id # None /\ portfolio_id \in OwnedPortfolios
    THEN portfolio_id
    ELSE CHOOSE p \in OwnedPortfolios : \A o \in OwnedPortfolios : p <= o

PortfolioDeposit(portfolio_id) ==
    /\ Room(MaxPortfolioTx, MaxPortfolioInserts)
    /\ UNCHANGED <<sessions, fx_cache, clock, portfolios>>
    /\ get_or_create_portfolio(portfolio_id) \in OwnedPortfolios
    /\ \E currency \in {"USD", "TRY"}, rate \in UsdTryRates :
        \E amt \in (IF currency = "USD" THEN UsdDeposits ELSE TryDeposits) :
            portfolio_deposit(currency, amt, None, rate)

PortfolioWithdraw(portfolio_id) ==
    /\ Room(MaxPortfolioTx, MaxPortfolioInserts)
    /\ UNCHANGED <<sessions, fx_cache, clock, portfolios>>
    /\ get_or_create_portfolio(portfolio_id) \in OwnedPortfolios
    /\ \E amt \in UsdWithdrawals, rate \in UsdTryRates :
        portfolio_withdraw("USD", amt, None, rate)

PortfolioDelete(portfolio_id, tx_id) ==
    /\ UNCHANGED <<sessions, fx_cache, clock, portfolios>>
    /\ get_or_create_portfolio(portfolio_id) \in OwnedPortfolios
    /\ delete_transaction(tx_id)

NextPortfolio ==
    \E portfolio_id \in PortfolioIds :
        \/ PortfolioDeposit(portfolio_id)
        \/ PortfolioWithdraw(portfolio_id)
        \/ \E tx_id \in StartTime..now : PortfolioDelete(portfolio_id, tx_id)

SpecPortfolio == Init /\ [][NextPortfolio]_vars

(***************************************************************************)
(* C27.  NotFound: a request that names a portfolio_id which the user does *)
(* not own, and a delete_transaction whose tx_id is not a row of the       *)
(* portfolio, is answered with not-found and changes no portfolio.         *)
(***************************************************************************)
NotFoundChangesNothing ==
    [][/\ \A portfolio_id \in PortfolioIds \ ({None} \cup OwnedPortfolios) :
            (\/ PortfolioDeposit(portfolio_id)
             \/ PortfolioWithdraw(portfolio_id)
             \/ \E tx_id \in StartTime..now :
                   PortfolioDelete(portfolio_id, tx_id))
            => (last'.error = "not_found" /\ UNCHANGED <<log, balances>>)
       /\ \A portfolio_id \in PortfolioIds, tx_id \in StartTime..now :
            ((\A t \in log : t.id # tx_id)
             /\ PortfolioDelete(portfolio_id, tx_id))
            => (last'.error = "not_found" /\ UNCHANGED <<log, balances>>)
      ]_vars

(***************************************************************************)
(* GET /api/portfolio/pnl with custom dates.  A date string of the query   *)
(* is absent, an ISO date, or a text that datetime.fromisoformat refuses.  *)
(***************************************************************************)
NoString == [given |-> FALSE, iso |-> FALSE, date |-> None]
DateString(date) == [given |-> TRUE, iso |-> TRUE, date |-> date]
BadString == [given |-> TRUE, iso |-> FALSE, date |-> None]
DateStrings == {NoString, BadString} \cup {DateString(d) : d \in PnlDates}

\* portfolio_pnl: the dates of the query, then the computation
portfolio_pnl(start_date_str, end_date_str, start_prices, end_prices, start_rate, end_rate, include) ==
    LET all_txs == CanonicalOrder(log)
        \* end_date = utcnow(), replaced by the parsed end_date_str ("except: pass")
        end_date == IF end_date_str.given /\ end_date_str.iso
                    THEN end_date_str.date ELSE now
    IN  IF log = {} THEN [error |-> TRUE]
        ELSE IF ~start_date_str.given THEN [error |-> TRUE]
        ELSE IF ~start_date_str.iso THEN [error |-> TRUE]
        ELSE calculate_period_pnl(all_txs, start_date_str.date, end_date,
                                  start_prices, end_prices, start_rate,
                                  end_rate, include)

(***************************************************************************)
(* C28.  InvalidDateRange: for a portfolio with transactions a query whose *)
(* end date is not after the start date (clamped to the first              *)
(* transaction), or whose start or end string is not a date, gets an       *)
(* error result.                                                           *)
(***************************************************************************)
InvalidDateRangeIsAnError ==
    \A start_date_str \in DateStrings, end_date_str \in DateStrings :
        LET r == portfolio_pnl(start_date_str, end_date_str, StartPrices,
                               StartPrices, 40, 40, NoInclude)
            unparseable == \/ start_date_str = BadString
                           \/ end_date_str = BadString
            not_after == /\ start_date_str.iso
                         /\ end_date_str.iso
                         /\ end_date_str.date
                               <= ClampedStart(log, start_date_str.date)
        IN  (log # {} /\ start_date_str.given /\ (unparseable \/ not_after))
            => r.error

(***************************************************************************)
(* The USD/TRY rate of a deposit of TRY.  get_usd_try_rate answers from    *)
(* the cache while the cached rate is fresh (younger than FX_CACHE_TTL),   *)
(* otherwise it asks the provider; fetched is the rate that the provider   *)
(* gives, or NoRate when the request fails.                                *)
(***************************************************************************)
MaxFxTx == 3
MaxFxInserts == 3
DefaultRate == Rat(365, 10)
FetchedRates == {NoRate, RatInt(40), RatInt(50)}

FX_CACHE_TTL == 300
TickSeconds == 150
MaxTicks == 3

\* a call that takes a failed fetch for a fetch of the cached rate
get_usd_try_rate_restamped(fetched) ==
    IF fx_cache # NoRate /\ clock - fx_cache[2] < FX_CACHE_TTL
    THEN [rate |-> fx_cache[1], cache |-> fx_cache, contacted |-> FALSE]
    ELSE IF fetched # NoRate
    THEN [rate |-> fetched, cache |-> <<fetched, clock>>, contacted |-> TRUE]
    ELSE [rate |-> IF fx_cache # NoRate THEN fx_cache[1] ELSE DefaultRate,
          cache |-> IF fx_cache # NoRate THEN <<fx_cache[1], clock>>
                    ELSE fx_cache,
          contacted |-> TRUE]

\* get_usd_try_rate(): the rate, the cache after the call and whether the
\* provider was asked; fetched is the answer of the provider if it is asked
get_usd_try_rate(fetched) ==
    IF fx_cache # NoRate /\ clock - fx_cache[2] < FX_CACHE_TTL
    THEN [rate |-> fx_cache[1], cache |-> fx_cache, contacted |-> FALSE]
    ELSE IF fetched # NoRate
    THEN [rate |-> fetched, cache |-> <<fetched, clock>>, contacted |-> TRUE]
    ELSE [rate |-> IF fx_cache # NoRate THEN fx_cache[1] ELSE DefaultRate,
          cache |-> fx_cache, contacted |-> TRUE]

\* the answer to a deposit of TRY: the rate of the deposit, with the time of
\* the request and whether the provider was asked
RateAnswer(got) ==
    [op |-> "deposit", status |-> "ok", validation |-> "none", error |-> "",
     symbol |-> NoSymbol, pnl |-> 0, rate |-> got.rate, at |-> clock,
     contacted |-> got.contacted]

\* POST /api/portfolio/deposit {currency: TRY}
FxDeposit(fetched) ==
    /\ Room(MaxFxTx, MaxFxInserts)
    /\ UNCHANGED <<sessions, clock, portfolios>>
    /\ \E amount_try \in TryDeposits :
        LET got == get_usd_try_rate(fetched)
        IN  /\ fx_cache' = got.cache
            /\ deposit(amount_try, None, got.rate)
            /\ last' = RateAnswer(got)
            /\ UNCHANGED <<interest_balance_usd, interest_balance_try,
                           holdings>>

\* time passes between two requests
FxTick ==
    /\ clock - StartClock < MaxTicks * TickSeconds
    /\ clock' = clock + TickSeconds
    /\ UNCHANGED <<log, now, balances, last, sessions, fx_cache, portfolios>>

NextFx ==
    \/ \E fetched \in FetchedRates : FxDeposit(fetched)
    \/ FxTick
    \/ Delete

SpecFx == Init /\ [][NextFx]_vars

(***************************************************************************)
(* C29.  FX provider failure on the write path: when the provider fails    *)
(* and no rate is cached, a deposit of TRY fails without appending a       *)
(* transaction or changing a balance; when a rate is cached, the deposit   *)
(* is stored at the last cached rate.                                      *)
(***************************************************************************)
DepositNeedsARate ==
    [][FxDeposit(NoRate)
          => IF fx_cache = NoRate
             THEN last'.status = "error" /\ UNCHANGED <<log, balances>>
             ELSE \E t \in log' \ log :
                     t.amount_usd
                        = Round4(RatDiv(RatInt(t.amount_try), fx_cache[1]))
      ]_vars

(***************************************************************************)
(* The ledger under every kind of request: the inserts, accepted or        *)
(* refused, and the deletes.                                               *)
(***************************************************************************)
NextLedger ==
    \/ NextRefusal
    \/ Delete

SpecLedger == Init /\ [][NextLedger]_vars

(***************************************************************************)
(* C30.  Transactions are immutable: no request changes a field of a       *)
(* stored transaction; the log changes only by one new row appended by a   *)
(* successful insert and by the removal of exactly the named row by a      *)
(* successful delete, and a refused request leaves it as it is.            *)
(***************************************************************************)
TransactionsImmutable ==
    [][/\ \A t \in log : (\E u \in log' : u.id = t.id) => t \in log'
       /\ \/ log' = log
          \/ /\ last'.status = "ok"
             /\ last'.op # "delete"
             /\ \E t \in log' \ log : log' = log \cup {t} /\ t.id = now
          \/ \E tx_id \in StartTime..(now - 1) :
                /\ delete_transaction(tx_id)
                /\ last'.status = "ok"
                /\ \E t \in log : t.id = tx_id /\ log' = log \ {t}
       /\ last'.status = "error" => log' = log
      ]_vars

\* a row was deleted, a refusal came before or after, and rows are left
DeletedOneOfSeveral ==
    /\ last.op = "delete"
    /\ last.status = "ok"
    /\ Cardinality(log) >= 2
    /\ \E t \in log : t.id > StartTime + 1

(***************************************************************************)
(* Trades on one asset with an order of the smallest quantity that the     *)
(* request accepts, 0.0001, and deletes.                                   *)
(***************************************************************************)
MaxHoldingTx == 4
MaxHoldingInserts == 4
HoldingOrders == Orders \cup {[quantity |-> DustQty, amount |-> 0]}

HoldingDeposit ==
    /\ Room(MaxHoldingTx, MaxHoldingInserts)
    /\ UNCHANGED <<sessions, fx_cache, clock, portfolios>>
    /\ \E amt \in UsdDeposits, rate \in UsdTryRates :
        portfolio_deposit("USD", amt, None, rate)

HoldingBuy ==
    /\ Room(MaxHoldingTx, MaxHoldingInserts)
    /\ UNCHANGED <<sessions, fx_cache, clock, portfolios>>
    /\ \E order \in HoldingOrders, rate \in UsdTryRates :
        portfolio_buy("AAPL", order, NoPrice, None, rate)

HoldingSell ==
    /\ Room(MaxHoldingTx, MaxHoldingInserts)
    /\ UNCHANGED <<sessions, fx_cache, clock, portfolios>>
    /\ \E order \in HoldingOrders, rate \in UsdTryRates :
        portfolio_sell("AAPL", order, NoPrice, None, rate)

NextHolding ==
    \/ HoldingDeposit
    \/ HoldingBuy
    \/ HoldingSell
    \/ Delete

SpecHolding == Init /\ [][NextHolding]_vars

(***************************************************************************)
(* C31.  Holding lifecycle: after any sequence of buys, sells and deletes  *)
(* every stored Holding row has a quantity above 0.0001 (there is one row  *)
(* per symbol, the rows being keyed by the symbol).                        *)
(***************************************************************************)
HoldingsAboveDust ==
    \A symbol \in DOMAIN holdings : holdings[symbol].quantity > DustQty

(***************************************************************************)
(* The portfolios of two users.  Every request carries the username of     *)
(* the token; a row of a portfolio holds the ids of its transactions, so   *)
(* that the rows of a deleted portfolio go with it.  The ledger of a       *)
(* portfolio is left out here: a deposit adds a transaction, a delete      *)
(* removes one.                                                            *)
(***************************************************************************)
MaxTableInserts == 2
Users == {"A", "B"}
NameInputs == {DefaultName, "Fund", " Fund ", " ", ""}

\* name.strip()
strip(name) ==
    CASE name = " Fund " -> "Fund"
      [] name = " " -> ""
      [] OTHER -> name

\* the rows of a user, and the first of a set of rows by created_at
Owned(username) == {p \in portfolios : p.username = username}
FirstCreated(rows) == CHOOSE p \in rows : \A o \in rows : p.id <= o.id

\* the ids that a request can name: none, a row of any user, or no row
PortfolioIdInputs == {None, now} \cup {p.id : p \in portfolios}
TxIdInputs == {now} \cup UNION {p.txs : p \in portfolios}

TableRoom == now - StartTime < MaxTableInserts
TableFrame == UNCHANGED <<log, balances, sessions, fx_cache, clock>>

\* the answer to a request of a user: returned is the set of the ids of the
\* portfolios that the answer shows or the request worked on
Answer(op, status, username, returned, request) ==
    [op |-> op, status |-> status, validation |-> "none", error |-> "",
     symbol |-> NoSymbol, pnl |-> 0, username |-> username,
     returned |-> returned, request |-> request]

\* the arguments of a request
Request(portfolio_id, name, tx_id) ==
    [portfolio_id |-> portfolio_id, name |-> name, tx_id |-> tx_id]

\* a lookup by id alone
lookup_by_id(username, portfolio_id) ==
    LET named == {p \in portfolios : p.id = portfolio_id}
        new == [id |-> now, username |-> username, name |-> DefaultName,
                txs |-> {}]
    IN  IF portfolio_id # None /\ named # {}
        THEN [portfolio |-> FirstCreated(named), table |-> portfolios]
        ELSE IF Owned(username) # {}
        THEN [portfolio |-> FirstCreated(Owned(username)), table |-> portfolios]
        ELSE [portfolio |-> new, table |-> portfolios \cup {new}]

\* get_or_create_portfolio(db, username, portfolio_id): the row and the table
\* after the call
get_or_create_portfolio_of(username, portfolio_id) ==
    LET named == {p \in portfolios :
                     p.id = portfolio_id /\ p.username = username}
        new == [id |-> now, username |-> username, name |-> DefaultName,
                txs |-> {}]
    IN  IF portfolio_id # None /\ named # {}
        THEN [portfolio |-> FirstCreated(named), table |-> portfolios]
        ELSE IF Owned(username) # {}
        THEN [portfolio |-> FirstCreated(Owned(username)), table |-> portfolios]
        ELSE [portfolio |-> new, table |-> portfolios \cup {new}]

\* a create that does not look for the name
create_unchecked(username, name) ==
    /\ portfolios' = portfolios \cup
           {[id |-> now, username |-> username, name |-> strip(name),
             txs |-> {}]}
    /\ now' = now + 1
    /\ last' = Answer("create_portfolio", "ok", username, {now},
                      Request(None, name, None))

create_portfolio(username, name) ==
    LET stripped == strip(name)
        p == [id |-> now, username |-> username, name |-> stripped,
              txs |-> {}]
    IN  IF stripped = "" \/ \E e \in Owned(username) : e.name = stripped
        THEN /\ last' = Answer("create_portfolio", "error", username, {},
                      Request(None, name, None))
             /\ UNCHANGED <<portfolios, now>>
        ELSE /\ portfolios' = portfolios \cup {p}
             /\ now' = now + 1
             /\ last' = Answer("create_portfolio", "ok", username, {p.id},
                      Request(None, name, None))

rename_portfolio(username, portfolio_id, new_name) ==
    LET stripped == strip(new_name)
        found == {p \in Owned(username) : p.id = portfolio_id}
        dup == {d \in Owned(username) :
                   d.name = stripped /\ d.id # portfolio_id}
    IN  IF stripped = "" \/ found = {} \/ dup # {}
        THEN /\ last' = Answer("rename_portfolio", "error", username, {},
                      Request(portfolio_id, new_name, None))
             /\ UNCHANGED <<portfolios, now>>
        ELSE LET p == FirstCreated(found)
             IN  /\ portfolios' = (portfolios \ {p})
                                     \cup {[p EXCEPT !.name = stripped]}
                 /\ last' = Answer("rename_portfolio", "ok", username, {p.id},
                      Request(portfolio_id, new_name, None))
                 /\ UNCHANGED now

\* a delete without the count of the portfolios of the user
delete_any(username, portfolio_id) ==
    LET found == {p \in Owned(username) : p.id = portfolio_id}
    IN  IF found = {}
        THEN /\ last' = Answer("delete_portfolio", "error", username, {},
                      Request(portfolio_id, "", None))
             /\ UNCHANGED <<portfolios, now>>
        ELSE /\ portfolios' = portfolios \ found
             /\ last' = Answer("delete_portfolio", "ok", username,
                               {portfolio_id},
                      Request(portfolio_id, "", None))
             /\ UNCHANGED now

delete_portfolio(username, portfolio_id) ==
    LET found == {p \in Owned(username) : p.id = portfolio_id}
    IN  IF Cardinality(Owned(username)) <= 1 \/ found = {}
        THEN /\ last' = Answer("delete_portfolio", "error", username, {},
                      Request(portfolio_id, "", None))
             /\ UNCHANGED <<portfolios, now>>
        ELSE /\ portfolios' = portfolios \ found
             /\ last' = Answer("delete_portfolio", "ok", username,
                               {portfolio_id},
                      Request(portfolio_id, "", None))
             /\ UNCHANGED now

\* a deposit of the user: one more transaction in the portfolio it resolves
user_deposit(username, portfolio_id) ==
    LET got == get_or_create_portfolio_of(username, portfolio_id)
        p == got.portfolio
    IN  /\ portfolios' = (got.table \ {p})
                            \cup {[p EXCEPT !.txs = @ \cup {now}]}
        /\ now' = now + 1
        /\ last' = Answer("deposit", "ok", username, {p.id},
                      Request(portfolio_id, "", None))

\* delete_transaction of the user: the row must be one of the portfolio
user_delete_transaction(username, tx_id, portfolio_id) ==
    LET got == get_or_create_portfolio_of(username, portfolio_id)
        p == got.portfolio
    IN  IF tx_id \notin p.txs
        THEN /\ portfolios' = got.table
             /\ now' = IF got.table = portfolios THEN now ELSE now + 1
             /\ last' = Answer("delete", "error", username, {},
                      Request(portfolio_id, "", tx_id))
        ELSE /\ portfolios' = (got.table \ {p})
                                 \cup {[p EXCEPT !.txs = @ \ {tx_id}]}
             /\ UNCHANGED now
             /\ last' = Answer("delete", "ok", username, {p.id},
                      Request(portfolio_id, "", tx_id))

\* list_portfolios
list_portfolios(username) ==
    /\ last' = Answer("list_portfolios", "ok", username,
                      {p.id : p \in Owned(username)},
                      Request(None, "", None))
    /\ UNCHANGED <<portfolios, now>>

CreatePortfolio ==
    /\ TableRoom
    /\ TableFrame
    /\ \E username \in Users, name \in NameInputs :
          create_portfolio(username, name)

RenamePortfolio ==
    /\ TableFrame
    /\ \E username \in Users, portfolio_id \in PortfolioIdInputs \ {None},
          name \in NameInputs :
          rename_portfolio(username, portfolio_id, name)

DeletePortfolio ==
    /\ TableFrame
    /\ \E username \in Users, portfolio_id \in PortfolioIdInputs \ {None} :
          delete_portfolio(username, portfolio_id)

UserDeposit ==
    /\ TableRoom
    /\ TableFrame
    /\ \E username \in Users, portfolio_id \in PortfolioIdInputs :
          user_deposit(username, portfolio_id)

UserDeleteTransaction ==
    /\ TableRoom
    /\ TableFrame
    /\ \E username \in Users, portfolio_id \in PortfolioIdInputs,
          tx_id \in TxIdInputs :
          user_delete_transaction(username, tx_id, portfolio_id)

ListPortfolios ==
    /\ TableFrame
    /\ \E username \in Users : list_portfolios(username)

NextTable ==
    \/ CreatePortfolio
    \/ RenamePortfolio
    \/ DeletePortfolio
    \/ UserDeposit
    \/ UserDeleteTransaction
    \/ ListPortfolios

SpecTable == Init /\ [][NextTable]_vars

(***************************************************************************)
(* C32: the last portfolio cannot be deleted: no step leaves a user who    *)
(* owned a portfolio without one, and a delete_portfolio of a user who     *)
(* owns exactly one portfolio answers with an error and deletes nothing.   *)
(***************************************************************************)
LastPortfolioKept ==
    [][/\ \A u \in Users : Owned(u) # {} => Owned(u)' # {}
       /\ (last'.op = "delete_portfolio"
             /\ Cardinality(Owned(last'.username)) = 1)
          => (last'.status = "error" /\ portfolios' = portfolios)]_vars

LastPortfolioRefused ==
    /\ last.op = "delete_portfolio"
    /\ last.status = "error"
    /\ Cardinality(Owned(last.username)) = 1
    /\ \E p \in Owned(last.username) : p.id = last.request.portfolio_id

\* the rows of one user that stand in the way of a name
Taken(username, name, portfolio_id) ==
    {e \in Owned(username) : e.name = strip(name) /\ e.id # portfolio_id}

NamesOk ==
    /\ \A p \in portfolios : strip(p.name) # ""
    /\ \A p, q \in portfolios :
          (p.username = q.username /\ p.name = q.name) => p = q

(***************************************************************************)
(* C36: after every step no two portfolios of one user have the same name  *)
(* and no name is empty or blank; a create or a rename whose name is empty *)
(* after stripping, or that another portfolio of the user has, answers     *)
(* with an error and changes no row.                                       *)
(***************************************************************************)
NamesUniquePerUser ==
    [][/\ NamesOk'
       /\ (/\ last'.op \in {"create_portfolio", "rename_portfolio"}
           /\ \/ strip(last'.request.name) = ""
              \/ Taken(last'.username, last'.request.name,
                       last'.request.portfolio_id) # {})
          => (last'.status = "error" /\ portfolios' = portfolios)]_vars

NameRefused ==
    /\ last.op \in {"create_portfolio", "rename_portfolio"}
    /\ last.status = "error"
    /\ Taken(last.username, last.request.name, last.request.portfolio_id) # {}

(***************************************************************************)
(* C35: a request of one user changes and deletes no row of another user,  *)
(* whatever portfolio id or transaction id it names, and every portfolio   *)
(* that the answer shows is one of the user.                               *)
(***************************************************************************)
UsersIsolated ==
    [][LET u == last'.username
       IN  /\ \A p \in portfolios : p.username # u => p \in portfolios'
           /\ \A p \in portfolios' : p.username # u => p \in portfolios
           /\ \A id \in last'.returned :
                 \E p \in portfolios \cup portfolios' :
                    p.id = id /\ p.username = u]_vars

ForeignIdPassed ==
    /\ last.op \in {"deposit", "delete", "delete_portfolio", "rename_portfolio"}
    /\ \E p \in portfolios :
          /\ p.username # last.username
          /\ \/ p.id = last.request.portfolio_id
             \/ last.request.tx_id \in p.txs

(***************************************************************************)
(* C33: after every request the cached balances cash_usd, cash_try,        *)
(* interest_balance_usd and interest_balance_try are all at least 0, also  *)
(* after an interest withdrawal with any amount and earned that the        *)
(* endpoint accepts.                                                       *)
(***************************************************************************)
CachedBalancesNonNegative ==
    /\ cash_usd >= 0
    /\ cash_try >= 0
    /\ interest_balance_usd >= 0
    /\ interest_balance_try >= 0

(***************************************************************************)
(* Two deposit requests in flight.  Each request has a session of its own: *)
(* get_or_create_portfolio loads the row of the portfolio, the handler     *)
(* adds the amount to the values it has loaded, and the commit writes the  *)
(* sums back; no row is locked in between.                                 *)
(***************************************************************************)
MaxDepositTx == 3
MaxDepositInserts == 3
ConcurrentDeposits ==
    {[currency |-> "USD", amount |-> 100000],
     [currency |-> "USD", amount |-> 200000],
     [currency |-> "TRY", amount |-> 4000000]}

\* a session that has loaded the portfolio for a deposit
Loaded(d) ==
    [pc |-> "read", op |-> "deposit", arg |-> d.amount, log |-> {},
     cash_usd |-> cash_usd, currency |-> d.currency, cash_try |-> cash_try,
     total_deposited_usd |-> total_deposited_usd,
     total_deposited_try |-> total_deposited_try]

\* deposit and deposit_usd up to the load of the portfolio
DepositRead(w) ==
    /\ Cardinality(log)
          + Cardinality({v \in Workers : sessions[v].pc = "read"}) < MaxDepositTx
    /\ now - StartTime < MaxDepositInserts
    /\ sessions[w].pc = "idle"
    /\ \E d \in ConcurrentDeposits :
          sessions' = [sessions EXCEPT ![w] = Loaded(d)]
    /\ UNCHANGED <<fx_cache, clock, portfolios>>
    /\ UNCHANGED <<log, now, balances, last>>

\* the rest of deposit and deposit_usd, on the values that the session loaded
DepositCommit(w) ==
    /\ sessions[w].pc = "read"
    /\ sessions[w].op = "deposit"
    /\ sessions' = [sessions EXCEPT ![w] = Idle]
    /\ UNCHANGED <<fx_cache, clock, portfolios>>
    /\ \E rate \in UsdTryRates :
        LET read == sessions[w]
            amt == read.arg
        IN  IF read.currency = "USD"
            THEN LET amount_try == Round2(Rat(amt * rate, 1))
                 IN  /\ AddTx(MkTx(now, "deposit", NoSymbol, 0, amt, amount_try,
                                   {"$"}, "", None, 0, 0))
                     /\ total_deposited_usd' = read.total_deposited_usd + amt
                     /\ total_deposited_try' =
                            read.total_deposited_try + amount_try
                     /\ cash_usd' = read.cash_usd + amt
                     /\ UNCHANGED cash_try
            ELSE LET amount_usd == Round4(RatDiv(RatInt(amt), RatInt(rate)))
                 IN  /\ AddTx(MkTx(now, "deposit", NoSymbol, 0, amount_usd, amt,
                                   {"TRY"}, "", None, 0, 0))
                     /\ total_deposited_try' = read.total_deposited_try + amt
                     /\ total_deposited_usd' =
                            read.total_deposited_usd + amount_usd
                     /\ cash_try' = read.cash_try + amt
                     /\ UNCHANGED cash_usd
    /\ last' = Ok("deposit", "none")
    /\ UNCHANGED <<interest_balance_usd, interest_balance_try, holdings>>

NextDeposits ==
    \/ \E w \in Workers : DepositRead(w)
    \/ \E w \in Workers : DepositCommit(w)

SpecDeposits == Init /\ [][NextDeposits]_vars

(***************************************************************************)
(* C34: no update is lost: when the deposits in flight have all committed, *)
(* the cached cash balances and the deposited totals are those of a replay *)
(* of the log, which holds a row for every one of the deposits.            *)
(***************************************************************************)
NoLostUpdate ==
    (\A w \in Workers : sessions[w].pc = "idle") =>
        LET st == _recalculate_portfolio_balances(log)
        IN  /\ cash_usd = st.cash_usd
            /\ cash_try = st.cash_try
            /\ total_deposited_usd = st.total_deposited_usd
            /\ total_deposited_try = st.total_deposited_try

\* the weight of a flow row: (total_days - days_since_start) / total_days
DietzWeight(t, start, total_days) ==
    Rat(total_days - (EffectiveDate(t) - start), total_days)

\* the amount of a flow row: a deposit positive, a withdrawal negative
SignedAmount(t, field) ==
    LET amount == IF field = "amount_try" THEN t.amount_try ELSE t.amount_usd
    IN  IF t.tx_type = "deposit" THEN amount ELSE 0 - amount

\* the sum of flow_amount * weight over a set of flow rows
RECURSIVE DietzSum(_, _, _, _)
DietzSum(rows, field, start, total_days) ==
    IF rows = {} THEN RatInt(0)
    ELSE LET t == CHOOSE x \in rows : TRUE
         IN  RatAdd(RatMul(RatInt(SignedAmount(t, field)),
                           DietzWeight(t, start, total_days)),
                    DietzSum(rows \ {t}, field, start, total_days))

\* pnl / base * 100, to 2 decimals
DietzPct(pnl, base) ==
    LET pct == RatMul(RatDiv(RatInt(pnl), base), RatInt(100 * 100))
    IN  RoundDiv(pct[1], pct[2])

\* the period of a request as calculate_period_pnl works with it
DietzDays(txs, period) ==
    LET days == period[2] - ClampedStart(txs, period[1])
    IN  IF days > 1 THEN days ELSE 1

(***************************************************************************)
(* C37.  Modified Dietz weights: in full-portfolio mode, with              *)
(* total_days = max(1, (end - start).days), every deposit and withdrawal   *)
(* dated in (start, end] has a weight                                      *)
(* (total_days - days_since_start) / total_days between 0 and 1, and the   *)
(* percentage that calculate_period_pnl reports is the pnl over StartValue *)
(* plus the sum of flow_amount * weight (to the 2 decimals of the          *)
(* response, for a denominator above the 0.01 TRY and 0.0001 USD below     *)
(* which no percentage is computed).                                       *)
(***************************************************************************)
DietzWeighting ==
    \A period \in Periods, end_prices \in PnlPrices, end_rate \in PnlRates :
        log # {} =>
        LET start == ClampedStart(log, period[1])
            end == period[2]
            total_days == DietzDays(log, period)
            rows == FlowRows(log, start, end)
            r == calculate_period_pnl(CanonicalOrder(log), period[1], end,
                     StartPrices, end_prices, 40, end_rate, NoInclude)
            base_try == RatAdd(RatInt(r.try_pnl.start_value),
                               DietzSum(rows, "amount_try", start, total_days))
            base_usd == RatAdd(RatInt(r.usd_pnl.start_value),
                               DietzSum(rows, "amount_usd", start, total_days))
        IN  /\ \A t \in rows :
                  LET weight == DietzWeight(t, start, total_days)
                  IN  0 <= weight[1] /\ weight[1] <= weight[2]
            /\ (base_try[1] > MinBaseTry * base_try[2])
                  => r.try_pnl.pnl_pct = DietzPct(r.try_pnl.pnl, base_try)
            /\ (base_usd[1] > MinBaseUsd * base_usd[2])
                  => r.usd_pnl.pnl_pct = DietzPct(r.usd_pnl.pnl, base_usd)

\* a period with a flow of a weight between 0 and 1 and a return that is not 0
WeightedReturn ==
    \E period \in Periods, end_prices \in PnlPrices :
        /\ log # {}
        /\ LET start == ClampedStart(log, period[1])
               total_days == DietzDays(log, period)
               r == calculate_period_pnl(CanonicalOrder(log), period[1],
                        period[2], StartPrices, end_prices, 40, 50, NoInclude)
           IN  /\ \E t \in FlowRows(log, start, period[2]) :
                     LET weight == DietzWeight(t, start, total_days)
                     IN  0 < weight[1] /\ weight[1] < weight[2]
               /\ r.usd_pnl.start_value > MinBaseUsd
               /\ r.usd_pnl.pnl_pct # 0

\* the cached rate is younger than FX_CACHE_TTL
Young == fx_cache # NoRate /\ clock - fx_cache[2] < FX_CACHE_TTL

(***************************************************************************)
(* C38.  FX rate cache: while the cached entry is younger than             *)
(* FX_CACHE_TTL, get_usd_try_rate gives the cached rate without asking the *)
(* provider and leaves the cache as it is; after the expiry a fetch that   *)
(* succeeds puts the fetched rate with the time of the call into the       *)
(* cache, and a fetch that fails gives the last cached rate, or            *)
(* DefaultRate when nothing is cached, and leaves the cache and its        *)
(* timestamp as they are, so that the entry is still expired for the next  *)
(* call.                                                                   *)
(***************************************************************************)
FxCacheTimeBoxed ==
    [][\A fetched \in FetchedRates :
          FxDeposit(fetched)
          => LET stored(rate) ==
                     /\ last'.rate = rate
                     /\ \E t \in log' \ log :
                           t.amount_usd
                              = Round4(RatDiv(RatInt(t.amount_try), rate))
             IN  IF Young
                 THEN /\ ~last'.contacted
                      /\ fx_cache' = fx_cache
                      /\ stored(fx_cache[1])
                 ELSE IF fetched # NoRate
                 THEN /\ last'.contacted
                      /\ fx_cache' = <<fetched, clock>>
                      /\ stored(fetched)
                 ELSE /\ last'.contacted
                      /\ fx_cache' = fx_cache
                      /\ stored(IF fx_cache # NoRate THEN fx_cache[1]
                                ELSE DefaultRate)
                      /\ ~Young'
      ]_vars

\* a deposit at the cached rate after a fetch that failed on an expired entry
ExpiredRateServed ==
    /\ last.op = "deposit"
    /\ fx_cache # NoRate
    /\ last.at - fx_cache[2] >= FX_CACHE_TTL
    /\ last.contacted
    /\ last.rate = fx_cache[1]

====
